---------------------------- MODULE Spec2Model ----------------------------
(***************************************************************************)
(* A model of the scan-and-search engine of MCP_Codebase_Searcher:         *)
(*   - Searcher (src/mcp_search.py): construction, search_files and its    *)
(*     helpers _read_file_content, _search_in_content,                     *)
(*     _get_line_info_from_char_offset and _generate_snippet;              *)
(*   - FileScanner (src/file_scanner.py): scan_directory, _is_excluded     *)
(*     and _is_binary.                                                     *)
(* Text is a sequence of one-character strings.  Offsets are 0-based as in *)
(* the Python source; TLA+ sequences are 1-based, so content[i] of the     *)
(* source is content[i + 1] here.                                          *)
(***************************************************************************)
EXTENDS Integers, Sequences, FiniteSets, TLC

(***************************************************************************)
(* Bounds of the model.                                                    *)
(***************************************************************************)
\* longest file content, in characters, of the one-file specification
MaxLen == 3
\* longest query, in characters
MaxQueryLen == 2
\* largest context_lines
MaxContext == 1
\* longest file list of the batch specification
MaxFiles == 2

Min(a, b) == IF a < b THEN a ELSE b
Max(a, b) == IF a > b THEN a ELSE b

RECURSIVE Flatten(_)
\* concatenation of a sequence of sequences
Flatten(ss) == IF ss = <<>> THEN <<>> ELSE Head(ss) \o Flatten(Tail(ss))

\* all sequences over S of length at most n
SeqsUpTo(S, n) == UNION {[1..m -> S] : m \in 0..n}

(***************************************************************************)
(* Characters.  "Idot" stands for U+0130 (capital I with dot above), the   *)
(* character whose str.lower() is two characters long: "i" followed by     *)
(* the combining dot U+0307 ("cdot").  "\f" is the form feed, one of the   *)
(* characters str.splitlines() treats as a line boundary besides "\n".     *)
(* A carriage return never reaches the searcher: open(..., 'r')            *)
(* translates it to "\n".                                                  *)
(***************************************************************************)
ContentChars == {"a", "A", " ", "\n", "\f", "Idot"}
QueryChars == {"a", "A", "\n", "?", "|"}

\* file contents are drawn over one of these alphabets
ContentAlphabets == {{"a", "A", " ", "\n"}, {"a", "\f", "Idot"}}
\* queries are drawn over one of these alphabets
QueryAlphabets == {{"a", "A", "\n"}, {"a", "?", "|"}}

\* str.lower() of one character
LowerChar(c) ==
    CASE c = "A" -> <<"a">>
      [] c = "B" -> <<"b">>
      [] c = "C" -> <<"c">>
      [] c = "G" -> <<"g">>
      [] c = "R" -> <<"r">>
      [] c = "Idot" -> <<"i", "cdot">>
      [] OTHER -> <<c>>

\* str.lower()
Lower(s) == Flatten([i \in 1..Len(s) |-> LowerChar(s[i])])

\* the one-character lower case the regular-expression engine compares with
\* under re.IGNORECASE
SreLower(c) ==
    CASE c = "A" -> "a"
      [] c = "B" -> "b"
      [] c = "C" -> "c"
      [] c = "G" -> "g"
      [] c = "R" -> "r"
      [] c = "Idot" -> "i"
      [] OTHER -> c

\* Python's s[a:b] for 0 <= a and 0 <= b
Slice(s, a, b) == SubSeq(s, a + 1, Min(b, Len(s)))

\* whitespace as str.strip() sees it
IsSpace(c) == c \in {" ", "\n", "\f"}

RECURSIVE RStrip(_)
RStrip(s) ==
    IF s # <<>> /\ IsSpace(s[Len(s)]) THEN RStrip(SubSeq(s, 1, Len(s) - 1)) ELSE s

RECURSIVE LStrip(_)
LStrip(s) == IF s # <<>> /\ IsSpace(Head(s)) THEN LStrip(Tail(s)) ELSE s

(***************************************************************************)
(* Lines.                                                                  *)
(***************************************************************************)
\* the characters str.splitlines() breaks a line at
IsLineBoundary(c) == c \in {"\n", "\f"}

RECURSIVE SplitFrom(_, _, _)
SplitFrom(s, i, cur) ==
    IF i > Len(s) THEN (IF cur = <<>> THEN <<>> ELSE <<cur>>)
    ELSE IF IsLineBoundary(s[i]) THEN <<cur>> \o SplitFrom(s, i + 1, <<>>)
    ELSE SplitFrom(s, i + 1, Append(cur, s[i]))

\* str.splitlines()
SplitLines(s) == SplitFrom(s, 1, <<>>)

RECURSIVE LineStartsFrom(_, _)
LineStartsFrom(s, i) ==
    IF i > Len(s) THEN <<>>
    ELSE (IF s[i] = "\n" THEN <<i>> ELSE <<>>) \o LineStartsFrom(s, i + 1)

\* mutant of LineStarts: the table holds the offsets of the newlines
\* themselves
LineStartsAtNewlines(s) ==
    LET after == LineStartsFrom(s, 1)
    IN  <<0>> \o [n \in 1..Len(after) |-> after[n] - 1]

\* [0] + [i + 1 for i, char in enumerate(content) if char == '\n']
LineStarts(s) == <<0>> \o LineStartsFrom(s, 1)

RECURSIVE LineIdxFrom(_, _, _, _)
LineIdxFrom(line_starts, char_offset, i, line_idx) ==
    IF i > Len(line_starts) THEN line_idx
    ELSE IF char_offset >= line_starts[i]
         THEN LineIdxFrom(line_starts, char_offset, i + 1, i - 1)
         ELSE line_idx

\* the loop of _get_line_info_from_char_offset and get_line_number_and_offset:
\* the 0-based index of the last line start not after char_offset
LineIdx(line_starts, char_offset) == LineIdxFrom(line_starts, char_offset, 1, 0)

\* << 0-based line index, 0-based offset within that line >>
LineInfo(line_starts, char_offset) ==
    LET li == LineIdx(line_starts, char_offset)
    IN  <<li, char_offset - line_starts[li + 1]>>

(***************************************************************************)
(* Literal search: str.find.                                               *)
(***************************************************************************)
RECURSIVE FindFrom(_, _, _)
FindFrom(haystack, needle, i) ==
    IF i + Len(needle) > Len(haystack) THEN -1
    ELSE IF Slice(haystack, i, i + Len(needle)) = needle THEN i
    ELSE FindFrom(haystack, needle, i + 1)

\* haystack.find(needle, start): the lowest offset >= start at which needle
\* occurs, -1 if there is none; an empty needle occurs at every offset
Find(haystack, needle, start) == FindFrom(haystack, needle, start)

(***************************************************************************)
(* Regular expressions: the fragment of Python's re syntax over            *)
(* QueryChars.  "|" separates alternatives, "?" after a character makes it *)
(* optional (greedy), "??" optional and lazy; every other character        *)
(* matches itself.                                                         *)
(***************************************************************************)
RECURSIVE CompilesFrom(_, _, _)
CompilesFrom(pattern, i, st) ==
    IF i > Len(pattern) THEN TRUE
    ELSE IF pattern[i] = "|" THEN CompilesFrom(pattern, i + 1, "start")
    ELSE IF pattern[i] = "?"
         THEN CASE st = "start" -> FALSE   \* re.error: nothing to repeat
                [] st = "atom" -> CompilesFrom(pattern, i + 1, "opt")
                [] st = "opt" -> CompilesFrom(pattern, i + 1, "lazy")
                [] OTHER -> FALSE          \* re.error: multiple repeat
    ELSE CompilesFrom(pattern, i + 1, "atom")

\* re.compile(pattern, flags) succeeds
Compiles(pattern) == CompilesFrom(pattern, 1, "start")

\* the offsets just after each "|" of the pattern, and 1: where the
\* alternatives start
AltStarts(pattern) ==
    <<1>> \o Flatten([i \in 1..Len(pattern) |->
                        IF pattern[i] = "|" THEN <<i + 1>> ELSE <<>>])

CharMatches(c, p, ignorecase) ==
    \/ c = p
    \/ ignorecase /\ SreLower(c) = SreLower(p)

RECURSIVE EndsFrom(_, _, _, _, _)
\* the offsets at which a match of pattern[i..] (up to the next "|") that
\* starts at offset p of content may end, in the order the backtracking
\* matcher tries them
EndsFrom(pattern, i, content, p, ignorecase) ==
    IF i > Len(pattern) \/ pattern[i] = "|" THEN <<p>>
    ELSE LET opt  == i + 1 <= Len(pattern) /\ pattern[i + 1] = "?"
             lazy == opt /\ i + 2 <= Len(pattern) /\ pattern[i + 2] = "?"
             next == IF lazy THEN i + 3 ELSE IF opt THEN i + 2 ELSE i + 1
             take == IF p < Len(content)
                        /\ CharMatches(content[p + 1], pattern[i], ignorecase)
                     THEN EndsFrom(pattern, next, content, p + 1, ignorecase)
                     ELSE <<>>
             skip == EndsFrom(pattern, next, content, p, ignorecase)
         IN  IF lazy THEN skip \o take
             ELSE IF opt THEN take \o skip
             ELSE take

\* the candidate ends of a match starting at p, over all alternatives
MatchEnds(pattern, content, p, ignorecase) ==
    LET starts == AltStarts(pattern)
    IN  Flatten([j \in 1..Len(starts) |->
                   EndsFrom(pattern, starts[j], content, p, ignorecase)])

RECURSIVE SearchFrom(_, _, _, _, _, _)
\* the scanner's search from pos: the leftmost start s >= pos with a match,
\* as << s, e >>, or << >>.  With must_advance an empty match at pos itself
\* is rejected and the matcher backtracks.
SearchFrom(pattern, content, s, pos, must_advance, ignorecase) ==
    IF s > Len(content) THEN <<>>
    ELSE LET ends == MatchEnds(pattern, content, s, ignorecase)
             ok   == SelectSeq(ends, LAMBDA e : ~(must_advance /\ s = pos /\ e = s))
         IN  IF ok # <<>> THEN <<s, Head(ok)>>
             ELSE SearchFrom(pattern, content, s + 1, pos, must_advance, ignorecase)

RECURSIVE FinditerFrom(_, _, _, _, _)
FinditerFrom(pattern, content, pos, must_advance, ignorecase) ==
    LET m == SearchFrom(pattern, content, pos, pos, must_advance, ignorecase)
    IN  IF m = <<>> THEN <<>>
        ELSE <<m>> \o FinditerFrom(pattern, content, m[2], m[2] = m[1], ignorecase)

\* compiled_regex.finditer(content): the spans << start, end >> of all
\* non-overlapping matches, left to right
Finditer(pattern, content, ignorecase) ==
    FinditerFrom(pattern, content, 0, FALSE, ignorecase)

(***************************************************************************)
(* _search_in_content.                                                     *)
(***************************************************************************)
\* get_line_number_and_offset(char_offset)[0]: the 1-based line number
LineNumberOf(content, char_offset) == LineIdx(LineStarts(content), char_offset) + 1

\* one element of the list _search_in_content returns
MatchInfo(content, char_start, char_end) ==
    [line_number |-> LineNumberOf(content, char_start),
     match_text  |-> Slice(content, char_start, char_end),
     char_start  |-> char_start,
     char_end    |-> char_end]

\* mutant of RegexMatches: the pattern is applied with re.IGNORECASE whatever
\* is_case_sensitive says
RegexMatchesIgnoringCase(pattern, content, case_sensitive) ==
    LET spans == Finditer(pattern, content, TRUE)
    IN  [n \in 1..Len(spans) |-> MatchInfo(content, spans[n][1], spans[n][2])]

\* the regular-expression branch of _search_in_content
RegexMatches(pattern, content, case_sensitive) ==
    LET spans == Finditer(pattern, content, ~case_sensitive)
    IN  [n \in 1..Len(spans) |-> MatchInfo(content, spans[n][1], spans[n][2])]

\* search_query of the literal branch
SearchQuery(q, case_sensitive) == IF case_sensitive THEN q ELSE Lower(q)

\* haystack of the literal branch
Haystack(content, case_sensitive) ==
    IF case_sensitive THEN content ELSE Lower(content)

(***************************************************************************)
(* _generate_snippet.  A snippet is the sequence of its rendered lines;    *)
(* a rendered line is its displayed line number (the prefix "%4d: ") and   *)
(* the text after the prefix, in which the two highlight markers are the   *)
(* elements ">>>" and "<<<".                                               *)
(***************************************************************************)
ErrorSnippet ==
    <<[num |-> 0, text |-> <<"[Error: Invalid match location for snippet generation]">>]>>

\* the rendering of the match line
MatchLineText(line_content, match_start_char_in_line, match_end_char_in_line) ==
    LET actual_match_start == Min(match_start_char_in_line, Len(line_content))
        actual_match_end   == Min(match_end_char_in_line, Len(line_content))
        before_match == Slice(line_content, 0, actual_match_start)
        match_text   == Slice(line_content, actual_match_start, actual_match_end)
        after_match  == Slice(line_content, actual_match_end, Len(line_content))
    IN  RStrip(before_match) \o <<" ", ">>>", " ">> \o match_text
          \o <<" ", "<<<", " ">> \o LStrip(after_match)

\* lines 265-270: the three pieces the match line is cut into
Segments(line_content, match_start_char_in_line, match_end_char_in_line) ==
    LET actual_match_start == Min(match_start_char_in_line, Len(line_content))
        actual_match_end   == Min(match_end_char_in_line, Len(line_content))
    IN  [start        |-> actual_match_start,
         end          |-> actual_match_end,
         before_match |-> Slice(line_content, 0, actual_match_start),
         match_text   |-> Slice(line_content, actual_match_start, actual_match_end),
         after_match  |-> Slice(line_content, actual_match_end, Len(line_content))]

\* the rendering of a context line
ContextLineText(line_content) == <<" ">> \o line_content

\* mutant of GenerateSnippet: the window ends one line early
GenerateSnippetShortWindow(content_lines, match_line_idx, match_start_char_in_line, match_end_char_in_line, ctx) ==
    IF content_lines = <<>> \/ match_line_idx < 0
          \/ match_line_idx >= Len(content_lines)
    THEN ErrorSnippet
    ELSE LET start_line == Max(0, match_line_idx - ctx)
             end_line   == Min(Len(content_lines), match_line_idx + ctx)
         IN  [n \in 1..(end_line - start_line) |->
                LET i == start_line + n - 1
                IN  [num  |-> i + 1,
                     text |-> IF i = match_line_idx
                              THEN MatchLineText(content_lines[i + 1],
                                                 match_start_char_in_line,
                                                 match_end_char_in_line)
                              ELSE ContextLineText(content_lines[i + 1])]]

\* lines 248-277: _generate_snippet
GenerateSnippet(content_lines, match_line_idx, match_start_char_in_line, match_end_char_in_line, ctx) ==
    IF content_lines = <<>> \/ match_line_idx < 0
          \/ match_line_idx >= Len(content_lines)
    THEN ErrorSnippet
    ELSE LET start_line == Max(0, match_line_idx - ctx)
             end_line   == Min(Len(content_lines), match_line_idx + ctx + 1)
         IN  [n \in 1..(end_line - start_line) |->
                LET i == start_line + n - 1
                IN  [num  |-> i + 1,
                     text |-> IF i = match_line_idx
                              THEN MatchLineText(content_lines[i + 1],
                                                 match_start_char_in_line,
                                                 match_end_char_in_line)
                              ELSE ContextLineText(content_lines[i + 1])]]

(***************************************************************************)
(* State.                                                                  *)
(***************************************************************************)
VARIABLES
    \* Searcher: the fields __init__ sets
    query, is_case_sensitive, is_regex, context_lines,
    \* where the caller and search_files are
    pc,
    \* the argument of search_files and the files' contents on disk
    file_paths, fs,
    \* search_files: index of the file being processed (1-based), its content
    idx, content,
    \* _search_in_content: matches, current_pos
    matches, current_pos,
    \* search_files: index of the match being rendered (1-based), all_results
    k, all_results,
    \* Searcher: _current_file_line_starts and _current_file_content_ref
    cache,
    \* history: for each element of all_results, where it came from
    origin,
    \* FileScanner: the fields __init__ sets
    cfg,
    \* the directory tree below the scan root
    tree,
    \* where scan_directory is
    scan_pc,
    \* os.walk: the directories still to be visited, next one first
    stack,
    \* scan_directory: collected_files
    collected_files,
    \* the root_path scan_directory is called with: what is there and its name
    root,
    \* history: the directories os.walk has yielded
    visited,
    \* history: for each directory yielded, its filenames as listed
    listed,
    \* history: how many search_files calls of this instance have returned
    \* before the current one, and what the last of them returned
    earlier_calls, prev_results,
    \* a direct call of _is_excluded or _is_binary: its arguments, where it
    \* is, what it returned, and whether it opened the file
    call, call_pc, result, opened,
    \* search_codebase: resolved_paths, and history: the scan_directory calls
    \* made, each with its argument and the directory it normalizes to
    resolved_paths, scanned,
    \* CacheManager: expiry_seconds and the size limit, in items
    cache_cfg,
    \* the backing store: its items by generated key, and the keys of its
    \* items, least recently stored first
    disk, order,
    \* the clock, in seconds, and the number of cache operations made
    now, ops,
    \* history: for each key components, what the last set call passed and
    \* no delete or clear_all call followed; the key components whose item
    \* the store culled since; whether an operation of the store has raised
    written, evicted, store_failed

searchVars == <<query, is_case_sensitive, is_regex, context_lines, pc, file_paths,
                fs, idx, content, matches, current_pos, k, all_results, cache,
                origin>>

scanVars == <<cfg, tree, scan_pc, stack, collected_files, root, visited, listed>>

repeatVars == <<earlier_calls, prev_results>>

callVars == <<call, call_pc, result, opened, resolved_paths, scanned>>

cacheVars == <<cache_cfg, disk, order, now, ops, written, evicted, store_failed>>

vars == <<searchVars, scanVars, repeatVars, callVars, cacheVars>>

\* the names of the files a search is given
Paths == <<"f1", "f2", "f3", "f4">>

\* a file that cannot be opened or decoded: _read_file_content returns None
Unreadable == [readable |-> FALSE, text |-> <<>>]

Readable(text) == [readable |-> TRUE, text |-> text]

\* no _current_file_line_starts attribute on the instance
NoCache == [present |-> FALSE, line_starts |-> <<>>, ref |-> 0]

(***************************************************************************)
(* FileScanner.  A name, a pattern and a path string are sequences of      *)
(* one-character strings.  An entry of the tree is identified by its path  *)
(* relative to the scan root, the sequence of the names leading to it; the *)
(* absolute path the scanner returns is the normalized root joined with    *)
(* it.                                                                     *)
(***************************************************************************)
DEFAULT_EXCLUDED_DIRS ==
    {<<".", "g", "i", "t">>,
     <<"_", "_", "p", "y", "c", "a", "c", "h", "e", "_", "_">>,
     <<"v", "e", "n", "v">>,
     <<"n", "o", "d", "e", "_", "m", "o", "d", "u", "l", "e", "s">>,
     <<".", "h", "g">>,
     <<".", "s", "v", "n">>}

DEFAULT_EXCLUDED_FILES ==
    {<<"*", ".", "l", "o", "g">>,
     <<"*", ".", "t", "m", "p">>,
     <<"*", ".", "s", "w", "p">>,
     <<"*", ".", "b", "a", "k">>}

DEFAULT_BINARY_EXTENSIONS ==
    {<<".", "p", "y", "c">>,
     <<".", "p", "y", "o">>,
     <<".", "o">>,
     <<".", "s", "o">>,
     <<".", "o", "b", "j">>,
     <<".", "d", "l", "l">>,
     <<".", "e", "x", "e">>,
     <<".", "c", "l", "a", "s", "s">>,
     <<".", "j", "a", "r">>,
     <<".", "z", "i", "p">>,
     <<".", "t", "a", "r">>,
     <<".", "g", "z">>,
     <<".", "b", "z", "2">>,
     <<".", "r", "a", "r">>,
     <<".", "7", "z">>,
     <<".", "i", "s", "o">>,
     <<".", "p", "n", "g">>,
     <<".", "j", "p", "g">>,
     <<".", "j", "p", "e", "g">>,
     <<".", "g", "i", "f">>,
     <<".", "b", "m", "p">>,
     <<".", "t", "i", "f", "f">>,
     <<".", "i", "c", "o">>,
     <<".", "m", "p", "3">>,
     <<".", "w", "a", "v">>,
     <<".", "o", "g", "g">>,
     <<".", "m", "p", "4">>,
     <<".", "a", "v", "i">>,
     <<".", "m", "o", "v">>,
     <<".", "f", "l", "v">>,
     <<".", "m", "k", "v">>,
     <<".", "p", "d", "f">>,
     <<".", "d", "o", "c">>,
     <<".", "d", "o", "c", "x">>,
     <<".", "x", "l", "s">>,
     <<".", "x", "l", "s", "x">>,
     <<".", "p", "p", "t">>,
     <<".", "p", "p", "t", "x">>,
     <<".", "o", "d", "t">>,
     <<".", "d", "b">>,
     <<".", "s", "q", "l", "i", "t", "e">>,
     <<".", "d", "a", "t">>}

Last(s) == s[Len(s)]

RECURSIVE JoinPath(_)
\* os.path.relpath of an entry below the root: its names joined by os.sep
JoinPath(rel) ==
    IF Len(rel) = 1 THEN rel[1]
    ELSE rel[1] \o <<"/">> \o JoinPath(Tail(rel))

RECURSIVE GlobFrom(_, _, _, _)
GlobFrom(name, i, pat, j) ==
    IF j > Len(pat) THEN i > Len(name)
    ELSE IF pat[j] = "*"
         THEN \/ GlobFrom(name, i, pat, j + 1)
              \/ i <= Len(name) /\ GlobFrom(name, i + 1, pat, j)
    ELSE IF pat[j] = "?"
         THEN i <= Len(name) /\ GlobFrom(name, i + 1, pat, j + 1)
    ELSE i <= Len(name) /\ name[i] = pat[j] /\ GlobFrom(name, i + 1, pat, j + 1)

\* fnmatch.fnmatch(name, pat) for patterns of literals, "*" and "?"
FnMatch(name, pat) == GlobFrom(name, 1, pat, 1)

EndsWith(s, suffix) ==
    Len(s) >= Len(suffix) /\ SubSeq(s, Len(s) - Len(suffix) + 1, Len(s)) = suffix

RECURSIVE RStripSep(_)
\* pattern.rstrip(os.sep + '/')
RStripSep(s) ==
    IF s # <<>> /\ s[Len(s)] = "/" THEN RStripSep(SubSeq(s, 1, Len(s) - 1)) ELSE s

Contains(s, c) == \E i \in 1..Len(s) : s[i] = c

\* mutant of DirPatternMatches: every pattern of the third kind is tried as a
\* glob, also one that holds a "." or a "*"
DirPatternMatchesAnyGlob(pattern, basename, relative_path) ==
    IF EndsWith(pattern, <<"/">>)
    THEN \/ FnMatch(relative_path \o <<"/">>, pattern)
         \/ FnMatch(basename, RStripSep(pattern))
    ELSE IF EndsWith(pattern, <<"/", "*">>) /\ ~EndsWith(pattern, <<"/", "/", "*">>)
    THEN LET pattern_base == SubSeq(pattern, 1, Len(pattern) - 2)
         IN  basename = pattern_base \/ relative_path = pattern_base
    ELSE FnMatch(basename, pattern) \/ FnMatch(relative_path, pattern)

\* lines 116-133: one custom pattern against a directory
DirPatternMatches(pattern, basename, relative_path) ==
    IF EndsWith(pattern, <<"/">>)
    THEN \/ FnMatch(relative_path \o <<"/">>, pattern)
         \/ FnMatch(basename, RStripSep(pattern))
    ELSE IF EndsWith(pattern, <<"/", "*">>) /\ ~EndsWith(pattern, <<"/", "/", "*">>)
    THEN LET pattern_base == SubSeq(pattern, 1, Len(pattern) - 2)
         IN  basename = pattern_base \/ relative_path = pattern_base
    ELSE /\ ~Contains(pattern, ".")
         /\ ~Contains(pattern, "*")
         /\ (FnMatch(basename, pattern) \/ FnMatch(relative_path, pattern))

\* mutant of FilePatternMatches: the relative path is not tried
FilePatternMatchesBasenameOnly(pattern, basename, relative_path) ==
    /\ ~EndsWith(pattern, <<"/">>)
    /\ FnMatch(basename, pattern)

\* lines 141-148: one custom pattern against a file
FilePatternMatches(pattern, basename, relative_path) ==
    /\ ~EndsWith(pattern, <<"/">>)
    /\ (FnMatch(basename, pattern) \/ FnMatch(relative_path, pattern))

\* line 96: os.path.basename(path_to_check); the path <<>> is the scan root
\* itself
BaseName(rel) == IF rel = <<>> THEN root.name ELSE Last(rel)

\* line 100: the path relative to the scan root, "." for the root itself
RelativePath(rel) == IF rel = <<>> THEN <<".">> ELSE JoinPath(rel)

\* lines 103-110: the general check for dot items
DotRule(rel, is_dir) ==
    LET basename == BaseName(rel)
        is_scan_root == rel = <<>>
    IN  /\ cfg.exclude_dot_items
        /\ basename # <<>> /\ Head(basename) = "."
        /\ ~(is_scan_root /\ basename = <<".">>)
        /\ ~(is_scan_root /\ is_dir)

\* lines 113-133: the rules for a directory that passed the dot check
DirRules(rel) ==
    LET basename == BaseName(rel)
        relative_path == RelativePath(rel)
    IN  \/ basename \in cfg.excluded_dirs
        \/ \E n \in 1..Len(cfg.custom_exclude_patterns) :
              DirPatternMatches(cfg.custom_exclude_patterns[n], basename,
                                relative_path)

\* lines 135-148: the rules for a file that passed the dot check
FileRules(rel) ==
    LET basename == BaseName(rel)
        relative_path == RelativePath(rel)
    IN  \/ \E pattern \in cfg.excluded_files : FnMatch(basename, pattern)
        \/ \E n \in 1..Len(cfg.custom_exclude_patterns) :
              FilePatternMatches(cfg.custom_exclude_patterns[n], basename,
                                 relative_path)

\* _is_excluded(path_to_check, scan_root_path, is_dir) for the scan root or
\* an entry below it
IsExcluded(rel, is_dir) ==
    \/ DotRule(rel, is_dir)
    \/ IF is_dir THEN DirRules(rel) ELSE FileRules(rel)

\* the offset of the last "." of a name, 0 if it has none
LastDot(name) ==
    IF Contains(name, ".")
    THEN CHOOSE i \in 1..Len(name) :
            name[i] = "." /\ \A j \in (i + 1)..Len(name) : name[j] # "."
    ELSE 0

\* os.path.splitext(file_path)[1]: the extension from the last dot on; dots
\* that lead the name do not start an extension
SplitExt(name) ==
    LET d == LastDot(name)
    IN  IF d > 0 /\ \E j \in 1..(d - 1) : name[j] # "."
        THEN SubSeq(name, d, Len(name))
        ELSE <<>>

\* str.lower() of a character of a file name
LowerNameChar(c) ==
    CASE c = "S" -> "s"
      [] c = "O" -> "o"
      [] OTHER -> c

\* str.lower() of a file name or a part of one
LowerName(name) == [i \in 1..Len(name) |-> LowerNameChar(name[i])]

\* the bytes _is_binary counts as text: printable ASCII, "\n", "\r", "\t", "\b"
IsTextByte(b) == (32 <= b /\ b <= 126) \/ b \in {10, 13, 9, 8}

NonTextCount(chunk) == Cardinality({i \in 1..Len(chunk) : ~IsTextByte(chunk[i])})

\* line 162: the number of bytes read from the start of the file
ChunkSize == 1024

\* line 182: the threshold 0.30, in percent
ThresholdPercent == 30

\* lines 155-156: the lowercased extension is a binary one
HasBinaryExtension(name) == LowerName(SplitExt(name)) \in cfg.binary_extensions

\* line 162: f.read(1024)
Chunk(bytes) == SubSeq(bytes, 1, Min(Len(bytes), ChunkSize))

\* line 167: b'\0' in chunk
HasNullByte(chunk) == \E i \in 1..Len(chunk) : chunk[i] = 0

\* line 182: non_text_chars / len(chunk) > 0.30
RatioExceeds(chunk) == 100 * NonTextCount(chunk) > ThresholdPercent * Len(chunk)

\* mutant of SampleIsBinary: the null-byte check is left out
SampleIsBinaryByRatioOnly(chunk) ==
    IF chunk = <<>> THEN FALSE
    ELSE RatioExceeds(chunk)

\* lines 163-183 and 195: the verdict on the bytes read
SampleIsBinary(chunk) ==
    IF chunk = <<>> THEN FALSE
    ELSE IF HasNullByte(chunk) THEN TRUE
    ELSE RatioExceeds(chunk)

\* mutant of ReadFailureVerdict: a file that cannot be read counts as binary
ReadFailureVerdictBinary == TRUE

\* lines 185-193: the verdict when the file cannot be opened or read
ReadFailureVerdict == FALSE

\* _is_binary(file_path) for a file with the given name, bytes and
\* readability
IsBinary(name, bytes, readable) ==
    IF HasBinaryExtension(name) THEN TRUE
    ELSE IF ~readable THEN ReadFailureVerdict
    ELSE SampleIsBinary(Chunk(bytes))

(***************************************************************************)
(* The directory trees scanned.                                            *)
(***************************************************************************)
\* most entries (files and directories) of a tree
MaxEntries == 3
\* deepest nesting of directories
MaxDepth == 2

DirNames == {<<".", "g", "i", "t">>, <<"v", "e", "n", "v">>, <<"s", "r", "c">>}

File(name, bytes, readable) ==
    [name |-> name, is_dir |-> FALSE, bytes |-> bytes, readable |-> readable]

Dir(name) == [name |-> name, is_dir |-> TRUE, bytes |-> <<>>, readable |-> TRUE]

\* the files a directory may hold
FileChoices ==
    {File(<<"r", "e", "p", "o", "r", "t", ".", "t", "x", "t">>, <<97>>, TRUE),
     File(<<"r", "e", "p", "o", "r", "t", ".", "t", "x", "t">>, <<97, 0>>, TRUE),
     File(<<"r", "e", "p", "o", "r", "t", ".", "t", "x", "t">>, <<97>>, FALSE),
     File(<<"n", "o", "t", "e", "s", ".", "m", "d">>, <<97>>, TRUE),
     File(<<"a", "p", "p", ".", "l", "o", "g">>, <<97>>, TRUE),
     File(<<".", "e", "n", "v">>, <<97>>, TRUE),
     File(<<"l", "i", "b", ".", "S", "O">>, <<97>>, TRUE)}

\* an entry of a tree: what it is and where
Entry(parent, node) ==
    [path |-> Append(parent, node.name), is_dir |-> node.is_dir,
     bytes |-> node.bytes, readable |-> node.readable]

\* the entries that can be added to tree t
Addable(t) ==
    LET parents == {<<>>} \cup {e.path : e \in {x \in t : x.is_dir}}
        nodes(parent) == FileChoices
                           \cup (IF Len(parent) < MaxDepth
                                 THEN {Dir(d) : d \in DirNames} ELSE {})
    IN  {e \in UNION {{Entry(parent, n) : n \in nodes(parent)} : parent \in parents} :
           \A x \in t : x.path # e.path}

RECURSIVE TreesUpTo(_)
\* the trees of at most n entries
TreesUpTo(n) ==
    IF n = 0 THEN {{}}
    ELSE LET prev == TreesUpTo(n - 1)
         IN  prev \cup UNION {{t \cup {e} : e \in Addable(t)} : t \in prev}

\* the custom exclusion patterns a scanner may be given
PatternChoices ==
    {<<"s", "r", "c", "/">>, <<"*", ".", "t", "x", "t">>}

Configs ==
    [excluded_dirs : {DEFAULT_EXCLUDED_DIRS, {<<".", "m", "y", "_", "v", "e", "n", "v">>}},
     excluded_files : {DEFAULT_EXCLUDED_FILES},
     binary_extensions : {DEFAULT_BINARY_EXTENSIONS},
     custom_exclude_patterns : {<<>>} \cup {<<q>> : q \in PatternChoices},
     exclude_dot_items : BOOLEAN]

\* what root_path names: a directory, a file, or nothing
ValidRoot == [kind |-> "dir", name |-> <<"p", "r", "o", "j">>]

InvalidRoots ==
    {[kind |-> "file", name |-> <<"r", "e", "p", "o", "r", "t", ".", "t", "x", "t">>],
     [kind |-> "missing", name |-> <<"n", "o", "p", "e">>]}

\* no scan_directory call
NoScan ==
    /\ tree = {}
    /\ scan_pc = "idle"
    /\ stack = <<>>
    /\ collected_files = <<>>
    /\ visited = {}
    /\ listed = {}

\* no scanner
ScanIdle ==
    /\ cfg = [excluded_dirs |-> {}, excluded_files |-> {}, binary_extensions |-> {},
              custom_exclude_patterns |-> <<>>, exclude_dot_items |-> FALSE]
    /\ root = ValidRoot
    /\ NoScan

\* no cache manager
CacheIdle ==
    /\ cache_cfg = [expiry_seconds |-> 0, size_limit |-> 0]
    /\ disk = <<>>
    /\ order = <<>>
    /\ now = 0
    /\ ops = 0
    /\ written = <<>>
    /\ evicted = {}
    /\ store_failed = FALSE

\* no direct call of _is_excluded or _is_binary
CallIdle ==
    /\ call = [op |-> "none"]
    /\ call_pc = "idle"
    /\ result = "none"
    /\ opened = FALSE
    /\ resolved_paths = <<>>
    /\ scanned = <<>>

(***************************************************************************)
(* scan_directory                                                          *)
(***************************************************************************)
\* the entries directly in the directory dirpath
Children(dirpath) ==
    {e \in tree : SubSeq(e.path, 1, Len(e.path) - 1) = dirpath
                    /\ Len(e.path) = Len(dirpath) + 1}

\* the orders in which a directory listing may return the names of S
Listings(S) ==
    {l \in [1..Cardinality(S) -> S] : \A i, j \in 1..Cardinality(S) : l[i] = l[j] => i = j}

\* mutant of KeepDir: no directory is pruned from the walk
KeepDirAlways(path) == TRUE

\* lines 69-72: a child directory stays in dirnames
KeepDir(path) == ~IsExcluded(path, TRUE)

\* mutant of IncludeFile: the binary check is left out
IncludeFileUnchecked(e) == ~IsExcluded(e.path, FALSE)

\* lines 75-79: a file is collected
IncludeFile(e) ==
    LET is_excluded_flag == IsExcluded(e.path, FALSE)
        is_binary_flag   == IsBinary(Last(e.path), e.bytes, e.readable)
    IN  ~is_excluded_flag /\ ~is_binary_flag

\* mutant of IsDir: the root is not checked
IsDirUnchecked(r) == TRUE

\* line 61: os.path.isdir(normalized_root_path)
IsDir(r) == r.kind = "dir"

\* lines 58-65: the walk starts at the root
ScanBegin ==
    /\ scan_pc = "start"
    /\ IsDir(root)
    /\ collected_files' = <<>>
    /\ stack' = << <<>> >>
    /\ scan_pc' = "walk"
    /\ UNCHANGED <<cfg, tree, root, visited, listed>>
    /\ UNCHANGED <<searchVars, repeatVars, callVars, cacheVars>>

\* lines 58-63: the root is not a directory; an empty list is returned
ScanInvalidRoot ==
    /\ scan_pc = "start"
    /\ ~IsDir(root)
    /\ collected_files' = <<>>
    /\ scan_pc' = "done"
    /\ UNCHANGED <<cfg, tree, root, visited, listed, stack>>
    /\ UNCHANGED <<searchVars, repeatVars, callVars, cacheVars>>

\* mutant of WalkStep: the files of a directory are put in front of the list
WalkStepInFront ==
    /\ scan_pc = "walk"
    /\ stack # <<>>
    /\ LET dirpath == Head(stack)
           subdirs == {e \in Children(dirpath) : e.is_dir}
           files   == {e \in Children(dirpath) : ~e.is_dir}
       IN  \E original_dirnames \in Listings(subdirs), filenames \in Listings(files) :
              LET dirnames == SelectSeq(original_dirnames, LAMBDA e : KeepDir(e.path))
                  found    == SelectSeq(filenames, IncludeFile)
              IN  /\ collected_files' =
                        [i \in 1..Len(found) |-> found[i].path] \o collected_files
                  /\ stack' = [i \in 1..Len(dirnames) |-> dirnames[i].path]
                                \o Tail(stack)
                  /\ listed' = listed \cup
                        {<<dirpath, [i \in 1..Len(filenames) |-> filenames[i].path]>>}
    /\ visited' = visited \cup {Head(stack)}
    /\ UNCHANGED <<cfg, tree, scan_pc, root>>
    /\ UNCHANGED <<searchVars, repeatVars, callVars, cacheVars>>

\* lines 65-80: one iteration of the loop over os.walk
WalkStep ==
    /\ scan_pc = "walk"
    /\ stack # <<>>
    /\ LET dirpath == Head(stack)
           subdirs == {e \in Children(dirpath) : e.is_dir}
           files   == {e \in Children(dirpath) : ~e.is_dir}
       IN  \E original_dirnames \in Listings(subdirs), filenames \in Listings(files) :
              LET dirnames == SelectSeq(original_dirnames, LAMBDA e : KeepDir(e.path))
                  found    == SelectSeq(filenames, IncludeFile)
              IN  /\ collected_files' =
                        collected_files \o [i \in 1..Len(found) |-> found[i].path]
                  /\ stack' = [i \in 1..Len(dirnames) |-> dirnames[i].path]
                                \o Tail(stack)
                  /\ listed' = listed \cup
                        {<<dirpath, [i \in 1..Len(filenames) |-> filenames[i].path]>>}
    /\ visited' = visited \cup {Head(stack)}
    /\ UNCHANGED <<cfg, tree, scan_pc, root>>
    /\ UNCHANGED <<searchVars, repeatVars, callVars, cacheVars>>

\* line 82
ScanReturn ==
    /\ scan_pc = "walk"
    /\ stack = <<>>
    /\ scan_pc' = "done"
    /\ UNCHANGED <<cfg, tree, stack, collected_files, root, visited, listed>>
    /\ UNCHANGED <<searchVars, repeatVars, callVars, cacheVars>>

\* no searcher
SearchIdle ==
    /\ query = <<>>
    /\ is_case_sensitive = FALSE
    /\ is_regex = FALSE
    /\ context_lines = 0
    /\ pc = "idle"
    /\ file_paths = <<>>
    /\ fs = <<>>
    /\ idx = 0
    /\ content = <<>>
    /\ matches = <<>>
    /\ current_pos = 0
    /\ k = 0
    /\ all_results = <<>>
    /\ origin = <<>>
    /\ cache = NoCache
    /\ earlier_calls = 0
    /\ prev_results = <<>>

\* a scanner and the root_path it is about to scan: a directory and the
\* tree below it, or something that is not a directory
InitScan ==
    /\ CacheIdle
    /\ \/ root = ValidRoot /\ tree \in TreesUpTo(MaxEntries)
       \/ root \in InvalidRoots /\ tree = {}
    /\ cfg \in Configs
    /\ scan_pc = "start"
    /\ stack = <<>>
    /\ collected_files = <<>>
    /\ visited = {}
    /\ listed = {}
    /\ SearchIdle
    /\ CallIdle

NextScan ==
    \/ ScanBegin
    \/ ScanInvalidRoot
    \/ WalkStep
    \/ ScanReturn

SpecScan == InitScan /\ [][NextScan]_vars

(***************************************************************************)
(* _is_excluded called directly, as the tests and the command line do.     *)
(***************************************************************************)
\* most custom exclusion patterns of a scanner in a direct call
MaxPatterns == 1

\* a string as a sequence of its characters, for the short names below
Git == <<".", "g", "i", "t">>
Venv == <<"v", "e", "n", "v">>
Src == <<"s", "r", "c">>
Build == <<"b", "u", "i", "l", "d">>
MyVenv == <<".", "m", "y", "_", "v", "e", "n", "v">>

\* the names of the scan roots asked about
ProbeRootNames == {Git, Venv, <<".", "h", "i", "d">>, <<"p", "r", "o", "j">>}

\* the names of the entries asked about
ProbeNames ==
    {Git, Venv, Src, Build, MyVenv, Build \o <<"1">>, <<".", "e", "n", "v">>,
     <<"a", ".", "t", "x", "t">>, <<"a", "p", "p", ".", "l", "o", "g">>}

\* the custom exclusion patterns of a direct call
ProbePatterns ==
    {Src \o <<"/">>, Build \o <<"/", "*">>, Src \o <<"/">> \o Build \o <<"/", "*">>,
     Build \o <<"/", "/", "*">>, Src \o <<"/">> \o Build, Build, <<"b", "*">>,
     <<"b", "u", "i", "l", "d", "?">>, <<"*", ".", "t", "x", "t">>,
     Src \o <<"/", "*", ".", "t", "x", "t">>, <<"a", ".", "t", "x", "t">>,
     <<"*", "/">>}

ProbeConfigs ==
    [excluded_dirs : {DEFAULT_EXCLUDED_DIRS, {MyVenv}},
     excluded_files : {DEFAULT_EXCLUDED_FILES,
                       {<<"*", ".", "c", "u", "s", "t", "o", "m", "l", "o", "g">>}},
     binary_extensions : {DEFAULT_BINARY_EXTENSIONS},
     custom_exclude_patterns : SeqsUpTo(ProbePatterns, MaxPatterns),
     exclude_dot_items : BOOLEAN]

\* the calls _is_excluded(path_to_check, scan_root_path, is_dir): the root
\* itself, which is a directory, or an entry one or two levels below it
ExcludedCalls ==
    {[op |-> "is_excluded", path |-> <<>>, is_dir |-> TRUE]}
      \cup {[op |-> "is_excluded", path |-> q, is_dir |-> d] :
               q \in {<<n>> : n \in ProbeNames} \cup {<<Src, n>> : n \in ProbeNames},
               d \in BOOLEAN}

InitExcluded ==
    /\ CacheIdle
    /\ cfg \in ProbeConfigs
    /\ call \in ExcludedCalls
    /\ root \in [kind : {"dir"},
                 name : IF call.path = <<>> THEN ProbeRootNames ELSE {ValidRoot.name}]
    /\ call_pc = "called"
    /\ result = "none"
    /\ opened = FALSE
    /\ resolved_paths = <<>>
    /\ scanned = <<>>
    /\ NoScan
    /\ SearchIdle

\* lines 96-110: the dot check, which returns True or lets the call go on
ExcludedDotCheck ==
    /\ call_pc = "called"
    /\ call.op = "is_excluded"
    /\ IF DotRule(call.path, call.is_dir)
       THEN result' = TRUE /\ call_pc' = "returned"
       ELSE result' = result /\ call_pc' = "rules"
    /\ UNCHANGED <<call, opened, resolved_paths, scanned>>
    /\ UNCHANGED <<searchVars, scanVars, repeatVars, cacheVars>>

\* lines 112-133 and 150: the rules for a directory
ExcludedDirRules ==
    /\ call_pc = "rules"
    /\ call.op = "is_excluded"
    /\ call.is_dir
    /\ result' = DirRules(call.path)
    /\ call_pc' = "returned"
    /\ UNCHANGED <<call, opened, resolved_paths, scanned>>
    /\ UNCHANGED <<searchVars, scanVars, repeatVars, cacheVars>>

\* lines 134-150: the rules for a file
ExcludedFileRules ==
    /\ call_pc = "rules"
    /\ call.op = "is_excluded"
    /\ ~call.is_dir
    /\ result' = FileRules(call.path)
    /\ call_pc' = "returned"
    /\ UNCHANGED <<call, opened, resolved_paths, scanned>>
    /\ UNCHANGED <<searchVars, scanVars, repeatVars, cacheVars>>

NextExcluded ==
    \/ ExcludedDotCheck
    \/ ExcludedDirRules
    \/ ExcludedFileRules

SpecExcluded == InitExcluded /\ [][NextExcluded]_vars

(***************************************************************************)
(* _is_binary called directly.                                             *)
(***************************************************************************)
\* longest file, in bytes, among the short files of a direct call
MaxBytes == 4

\* the bytes of the short files: NUL, backspace, form feed, "a" and a byte
\* above the ASCII range
ByteChoices == {0, 8, 12, 97, 200}

\* n times the byte b
Repeat(b, n) == [i \in 1..n |-> b]

\* longer files: a NUL byte just after and just inside the bytes read,
\* non-text bytes only after the bytes read, and 30, 31 and 40 percent of
\* non-text bytes
LongFiles ==
    {Repeat(97, ChunkSize) \o <<0>>,
     Repeat(97, ChunkSize - 1) \o <<0>>,
     Repeat(97, ChunkSize) \o Repeat(1, ChunkSize),
     Repeat(97, 7) \o Repeat(1, 3),
     Repeat(97, 69) \o Repeat(1, 31),
     Repeat(97, 6) \o Repeat(127, 4)}

\* the names of the files asked about
BinaryNames ==
    {<<"r", "e", "p", "o", "r", "t", ".", "t", "x", "t">>,
     <<"l", "i", "b", ".", "S", "O">>,
     <<"l", "o", "g", "o", ".", "p", "n", "g">>,
     <<"d", "a", "t", "a", ".", "c", "u", "s", "t", "o", "m", "b", "i", "n">>,
     <<"R", "E", "A", "D", "M", "E">>,
     <<".", "p", "n", "g">>,
     <<"a", ".", "t", "a", "r", ".", "g", "z">>}

BinaryConfigs ==
    [excluded_dirs : {DEFAULT_EXCLUDED_DIRS},
     excluded_files : {DEFAULT_EXCLUDED_FILES},
     binary_extensions : {DEFAULT_BINARY_EXTENSIONS,
                          {<<".", "c", "u", "s", "t", "o", "m", "b", "i", "n">>}},
     custom_exclude_patterns : {<<>>},
     exclude_dot_items : {TRUE}]

\* the calls _is_binary(file_path): a file that can be read, with its bytes,
\* or one that cannot
BinaryCalls ==
    [op : {"is_binary"}, name : BinaryNames,
     bytes : SeqsUpTo(ByteChoices, MaxBytes) \cup LongFiles, readable : {TRUE}]
      \cup [op : {"is_binary"}, name : BinaryNames, bytes : {<<97>>},
            readable : {FALSE}]

InitBinary ==
    /\ CacheIdle
    /\ cfg \in BinaryConfigs
    /\ call \in BinaryCalls
    /\ root = ValidRoot
    /\ call_pc = "called"
    /\ result = "none"
    /\ opened = FALSE
    /\ resolved_paths = <<>>
    /\ scanned = <<>>
    /\ NoScan
    /\ SearchIdle

\* lines 155-157: the extension decides, or the file has to be read
BinaryExtensionCheck ==
    /\ call_pc = "called"
    /\ call.op = "is_binary"
    /\ IF HasBinaryExtension(call.name)
       THEN result' = TRUE /\ call_pc' = "returned"
       ELSE result' = result /\ call_pc' = "open"
    /\ UNCHANGED <<call, opened, resolved_paths, scanned>>
    /\ UNCHANGED <<searchVars, scanVars, repeatVars, cacheVars>>

\* lines 160-162 and 185-193: open() or read() raises
BinaryReadFails ==
    /\ call_pc = "open"
    /\ call.op = "is_binary"
    /\ ~call.readable
    /\ result' = ReadFailureVerdict
    /\ call_pc' = "returned"
    /\ UNCHANGED <<call, opened, resolved_paths, scanned>>
    /\ UNCHANGED <<searchVars, scanVars, repeatVars, cacheVars>>

\* lines 160-183 and 195: the first bytes are read and judged
BinaryRead ==
    /\ call_pc = "open"
    /\ call.op = "is_binary"
    /\ call.readable
    /\ opened' = TRUE
    /\ result' = SampleIsBinary(Chunk(call.bytes))
    /\ call_pc' = "returned"
    /\ UNCHANGED <<call, resolved_paths, scanned>>
    /\ UNCHANGED <<searchVars, scanVars, repeatVars, cacheVars>>

NextBinary ==
    \/ BinaryExtensionCheck
    \/ BinaryReadFails
    \/ BinaryRead

SpecBinary == InitBinary /\ [][NextBinary]_vars

(***************************************************************************)
(* search_codebase of the tool server (src/src/mcp_server.py).  A          *)
(* directory is the sequence of the names leading to it from the           *)
(* filesystem root, << >> being the root.  A path string is absolute, with *)
(* one or two leading slashes (os.path.normpath keeps two), or relative;   *)
(* its parts are names and "..", and "." is the relative path without      *)
(* parts.                                                                  *)
(***************************************************************************)
\* longest list of requested paths
MaxPaths == 2

\* the directories that exist
ExistingDirs == {<<>>, <<"ws">>, <<"ws", "src">>, <<"home">>}

AbsolutePath(lead, parts) == [isabs |-> TRUE, lead |-> lead, parts |-> parts]

RelativePathString(parts) == [isabs |-> FALSE, lead |-> 0, parts |-> parts]

\* the strings a client may pass in paths: ".", "src", "..", "nope", "/",
\* "//", "/ws", "/ws/.."
RawPathChoices ==
    {RelativePathString(<<>>), RelativePathString(<<"src">>),
     RelativePathString(<<"..">>), RelativePathString(<<"nope">>),
     AbsolutePath(1, <<>>), AbsolutePath(2, <<>>),
     AbsolutePath(1, <<"ws">>), AbsolutePath(1, <<"ws", "..">>)}

RECURSIVE NormFrom(_, _)
\* os.path.normpath(os.path.join(base, parts)) for an absolute base: ".."
\* drops the last name and stays at the root
NormFrom(base, parts) ==
    IF parts = <<>> THEN base
    ELSE IF Head(parts) = ".."
         THEN NormFrom(IF base = <<>> THEN <<>> ELSE SubSeq(base, 1, Len(base) - 1),
                       Tail(parts))
         ELSE NormFrom(Append(base, Head(parts)), Tail(parts))

\* os.path.normpath of an absolute path string
NormPath(p) == AbsolutePath(p.lead, NormFrom(<<>>, p.parts))

\* os.path.abspath: a relative path is joined to the working directory
AbsPath(p, cwd) ==
    IF p.isabs THEN NormPath(p) ELSE AbsolutePath(1, NormFrom(cwd, p.parts))

\* lines 91-105: one path of _resolve_paths
ResolvePath(p, workspace_root, cwd) ==
    IF p.isabs THEN NormPath(p)
    ELSE IF workspace_root # "unset"
         THEN LET candidate == AbsolutePath(1, NormFrom(workspace_root, p.parts))
              IN  IF candidate.parts \in ExistingDirs THEN candidate
                  ELSE AbsPath(p, cwd)
         ELSE AbsPath(p, cwd)

\* _resolve_paths(raw_paths)
ResolvePaths(raw_paths, workspace_root, cwd) ==
    [i \in 1..Len(raw_paths) |-> ResolvePath(raw_paths[i], workspace_root, cwd)]

\* line 147: rp == '/'; the two patterns for drive roots match no string
\* that starts with a slash
IsRootString(rp) == rp.lead = 1 /\ rp.parts = <<>>

\* lines 178-179: the argument of the i-th scan_directory call
ScanArgument(paths, resolved, i) == paths[i]

\* src/file_scanner.py line 59: the directory scan_directory walks
NormalizedRootPath(root_path, cwd) == AbsPath(root_path, cwd).parts

\* the calls search_codebase(query, ctx, paths) and the process they reach:
\* the workspace root of the environment, if any, and the working directory
ServerCalls ==
    [op : {"search_codebase"},
     paths : SeqsUpTo(RawPathChoices, MaxPaths),
     workspace_root : {"unset", <<"ws">>},
     cwd : {<<>>, <<"ws">>, <<"home">>}]

InitServer ==
    /\ CacheIdle
    /\ call \in ServerCalls
    /\ call_pc = "called"
    /\ result = "none"
    /\ opened = FALSE
    /\ resolved_paths = <<>>
    /\ scanned = <<>>
    /\ ScanIdle
    /\ SearchIdle

\* line 141
ServerResolve ==
    /\ call_pc = "called"
    /\ call.op = "search_codebase"
    /\ resolved_paths' = ResolvePaths(call.paths, call.workspace_root, call.cwd)
    /\ call_pc' = "guard"
    /\ UNCHANGED <<call, result, opened, scanned>>
    /\ UNCHANGED <<searchVars, scanVars, repeatVars, cacheVars>>

\* lines 145-166: a resolved path is the root string; an error is returned
ServerReject ==
    /\ call_pc = "guard"
    /\ \E i \in 1..Len(resolved_paths) : IsRootString(resolved_paths[i])
    /\ result' = "error"
    /\ call_pc' = "returned"
    /\ UNCHANGED <<call, opened, resolved_paths, scanned>>
    /\ UNCHANGED <<searchVars, scanVars, repeatVars, cacheVars>>

\* lines 145-177: no resolved path is the root string
ServerAccept ==
    /\ call_pc = "guard"
    /\ \A i \in 1..Len(resolved_paths) : ~IsRootString(resolved_paths[i])
    /\ call_pc' = "scan"
    /\ UNCHANGED <<call, result, opened, resolved_paths, scanned>>
    /\ UNCHANGED <<searchVars, scanVars, repeatVars, cacheVars>>

\* lines 178-182: one iteration of the loop that scans
ServerScan ==
    /\ call_pc = "scan"
    /\ Len(scanned) < Len(call.paths)
    /\ LET path == ScanArgument(call.paths, resolved_paths, Len(scanned) + 1)
       IN  scanned' = Append(scanned,
                             [arg |-> path,
                              dir |-> NormalizedRootPath(path, call.cwd)])
    /\ UNCHANGED <<call, call_pc, result, opened, resolved_paths>>
    /\ UNCHANGED <<searchVars, scanVars, repeatVars, cacheVars>>

\* lines 184-200: the files found are searched and the records returned
ServerReturn ==
    /\ call_pc = "scan"
    /\ Len(scanned) = Len(call.paths)
    /\ result' = "results"
    /\ call_pc' = "returned"
    /\ UNCHANGED <<call, opened, resolved_paths, scanned>>
    /\ UNCHANGED <<searchVars, scanVars, repeatVars, cacheVars>>

NextServer ==
    \/ ServerResolve
    \/ ServerReject
    \/ ServerAccept
    \/ ServerScan
    \/ ServerReturn

SpecServer == InitServer /\ [][NextServer]_vars

(***************************************************************************)
(* CacheManager (src/src/cache_manager.py) over a diskcache.Cache.  The    *)
(* backing store keeps, for each generated key, a value and an expiry      *)
(* time; an item is live until the clock reaches its expiry time.  When a  *)
(* set leaves more items than the size limit allows, the store culls       *)
(* expired items and then the least recently stored ones.  An operation    *)
(* of the store may raise, which the manager's methods catch; at most one  *)
(* operation of a behaviour raises.  The clock reads 0 at the manager's    *)
(* first operation.                                                        *)
(***************************************************************************)
\* most cache operations in one behaviour
MaxOps == 3
\* latest reading of the clock, in seconds
MaxTime == 1

\* the key components and the values of the calls
CacheKeys == {<<"a">>, <<"a", "b">>}

CacheValues == {"v1", "v2"}

\* the expire argument of set: None (the empty sequence), or a number of
\* seconds
ExpireChoices == {<<>>, <<1>>}

\* the managers constructed: the default lifetime of an item, and how many
\* items fit under the size limit
CacheConfigs == [expiry_seconds : {2}, size_limit : {1, 2}]

\* json.dumps(components_tuple, sort_keys=True, default=str) of a tuple of
\* strings
Serialize(key_components) ==
    <<"[">>
      \o Flatten([i \in 1..Len(key_components) |->
                    (IF i > 1 THEN <<",", " ">> ELSE <<>>)
                      \o <<"\"", key_components[i], "\"">>])
      \o <<"]">>

\* mutant of GenerateKey: only the first component is serialized
GenerateKeyOfFirst(key_components) == Serialize(<<Head(key_components)>>)

\* lines 31-43: _generate_key; the SHA-256 digest stands for the text it
\* digests, no two texts of the model having the same digest
GenerateKey(key_components) == Serialize(key_components)

\* the keys the store may hold
StoreKeys == {Serialize(kc) : kc \in CacheKeys}

Absent == [present |-> FALSE, value |-> "None", expire_time |-> 0]

Item(value, expire_time) == [present |-> TRUE, value |-> value, expire_time |-> expire_time]

\* the store has a live item for the key at time t
Live(d, key, t) == d[key].present /\ d[key].expire_time > t

\* line 56: effective_expire
EffectiveExpire(expire, expiry_seconds) ==
    IF expire # <<>> THEN expire[1] ELSE expiry_seconds

\* s without the element x
Without(s, x) == SelectSeq(s, LAMBDA y : y # x)

RECURSIVE Evict(_, _)
\* the stored keys, least recently stored first, cut from the front until
\* they fit
Evict(keys, limit) == IF Len(keys) <= limit THEN keys ELSE Evict(Tail(keys), limit)

\* the keys left after the cull that follows a set: expired items go first
Cull(d, keys, t, limit) ==
    Evict(SelectSeq(keys, LAMBDA key : d[key].expire_time > t), limit)

\* a manager on an empty cache directory
InitCache ==
    /\ cache_cfg \in CacheConfigs
    /\ disk = [key \in StoreKeys |-> Absent]
    /\ order = <<>>
    /\ now = 0
    /\ ops = 0
    /\ written = [kc \in CacheKeys |-> Absent]
    /\ evicted = {}
    /\ store_failed = FALSE
    /\ CallIdle
    /\ ScanIdle
    /\ SearchIdle

\* the call as the caller sees it, with what the history says of its key
\* before it
CacheCall(name, key_components) ==
    [op |-> name, key |-> key_components, at |-> now,
     before |-> IF name = "delete" THEN disk ELSE <<>>,
     written_before |-> IF name = "clear_all" THEN Absent ELSE written[key_components],
     evicted_before |-> key_components \in evicted]

\* lines 54-61: set, the store accepting the item
CacheSet ==
    /\ ops < MaxOps
    /\ \E key_components \in CacheKeys, value \in CacheValues, expire \in ExpireChoices :
          LET cache_key == GenerateKey(key_components)
              effective_expire == EffectiveExpire(expire, cache_cfg.expiry_seconds)
              item   == Item(value, now + effective_expire)
              stored == [disk EXCEPT ![cache_key] = item]
              keys   == Append(Without(order, cache_key), cache_key)
              kept   == Cull(stored, keys, now, cache_cfg.size_limit)
              gone   == {key \in StoreKeys : stored[key].present
                            /\ \A i \in 1..Len(kept) : kept[i] # key}
          IN  /\ call' = CacheCall("set", key_components)
              /\ disk' = [key \in StoreKeys |-> IF key \in gone THEN Absent ELSE stored[key]]
              /\ order' = kept
              /\ written' = [written EXCEPT ![key_components] = item]
              /\ evicted' = (evicted \ {key_components})
                               \cup {kc \in CacheKeys : GenerateKey(kc) \in gone}
    /\ result' = "None"
    /\ ops' = ops + 1
    /\ UNCHANGED <<cache_cfg, now, store_failed>>
    /\ UNCHANGED <<call_pc, opened, resolved_paths, scanned>>
    /\ UNCHANGED <<searchVars, scanVars, repeatVars>>

\* lines 54-61: set, the store raising; the manager prints a warning
CacheSetFails ==
    /\ ops < MaxOps
    /\ ~store_failed
    /\ \E key_components \in CacheKeys, value \in CacheValues, expire \in ExpireChoices :
          LET effective_expire == EffectiveExpire(expire, cache_cfg.expiry_seconds)
          IN  /\ call' = CacheCall("set", key_components)
              /\ written' = [written EXCEPT ![key_components] =
                                Item(value, now + effective_expire)]
    /\ result' = "None"
    /\ store_failed' = TRUE
    /\ ops' = ops + 1
    /\ UNCHANGED <<cache_cfg, disk, order, now, evicted>>
    /\ UNCHANGED <<call_pc, opened, resolved_paths, scanned>>
    /\ UNCHANGED <<searchVars, scanVars, repeatVars>>

\* lines 45-49: get, the store answering
CacheGet ==
    /\ ops < MaxOps
    /\ \E key_components \in CacheKeys :
          LET cache_key == GenerateKey(key_components)
          IN  /\ call' = CacheCall("get", key_components)
              /\ result' = IF Live(disk, cache_key, now)
                           THEN disk[cache_key].value ELSE "None"
    /\ ops' = ops + 1
    /\ UNCHANGED <<cache_cfg, disk, order, now, written, evicted, store_failed>>
    /\ UNCHANGED <<call_pc, opened, resolved_paths, scanned>>
    /\ UNCHANGED <<searchVars, scanVars, repeatVars>>

\* lines 45-52: get, the store raising; None is returned
CacheGetFails ==
    /\ ops < MaxOps
    /\ ~store_failed
    /\ \E key_components \in CacheKeys : call' = CacheCall("get", key_components)
    /\ result' = "None"
    /\ store_failed' = TRUE
    /\ ops' = ops + 1
    /\ UNCHANGED <<cache_cfg, disk, order, now, written, evicted>>
    /\ UNCHANGED <<call_pc, opened, resolved_paths, scanned>>
    /\ UNCHANGED <<searchVars, scanVars, repeatVars>>

\* lines 63-67: delete, the store answering: a live item is removed
CacheDelete ==
    /\ ops < MaxOps
    /\ \E key_components \in CacheKeys :
          LET cache_key == GenerateKey(key_components)
              found == Live(disk, cache_key, now)
          IN  /\ call' = CacheCall("delete", key_components)
              /\ result' = IF found THEN 1 ELSE 0
              /\ disk' = IF found THEN [disk EXCEPT ![cache_key] = Absent] ELSE disk
              /\ order' = IF found THEN Without(order, cache_key) ELSE order
              /\ written' = [written EXCEPT ![key_components] = Absent]
              /\ evicted' = evicted \ {key_components}
    /\ ops' = ops + 1
    /\ UNCHANGED <<cache_cfg, now, store_failed>>
    /\ UNCHANGED <<call_pc, opened, resolved_paths, scanned>>
    /\ UNCHANGED <<searchVars, scanVars, repeatVars>>

\* lines 63-70: delete, the store raising; 0 is returned
CacheDeleteFails ==
    /\ ops < MaxOps
    /\ ~store_failed
    /\ \E key_components \in CacheKeys :
          /\ call' = CacheCall("delete", key_components)
          /\ written' = [written EXCEPT ![key_components] = Absent]
    /\ result' = 0
    /\ store_failed' = TRUE
    /\ ops' = ops + 1
    /\ UNCHANGED <<cache_cfg, disk, order, now, evicted>>
    /\ UNCHANGED <<call_pc, opened, resolved_paths, scanned>>
    /\ UNCHANGED <<searchVars, scanVars, repeatVars>>

\* lines 72-77: clear_all, the store answering with the number of items
\* removed
CacheClearAll ==
    /\ ops < MaxOps
    /\ call' = CacheCall("clear_all", <<>>)
    /\ result' = Len(order)
    /\ disk' = [key \in StoreKeys |-> Absent]
    /\ order' = <<>>
    /\ written' = [kc \in CacheKeys |-> Absent]
    /\ evicted' = {}
    /\ ops' = ops + 1
    /\ UNCHANGED <<cache_cfg, now, store_failed>>
    /\ UNCHANGED <<call_pc, opened, resolved_paths, scanned>>
    /\ UNCHANGED <<searchVars, scanVars, repeatVars>>

\* lines 72-80: clear_all, the store raising; 0 is returned
CacheClearAllFails ==
    /\ ops < MaxOps
    /\ ~store_failed
    /\ call' = CacheCall("clear_all", <<>>)
    /\ result' = 0
    /\ written' = [kc \in CacheKeys |-> Absent]
    /\ store_failed' = TRUE
    /\ ops' = ops + 1
    /\ UNCHANGED <<cache_cfg, disk, order, now, evicted>>
    /\ UNCHANGED <<call_pc, opened, resolved_paths, scanned>>
    /\ UNCHANGED <<searchVars, scanVars, repeatVars>>

\* a second passes
Tick ==
    /\ ops > 0
    /\ now < MaxTime
    /\ now' = now + 1
    /\ UNCHANGED <<cache_cfg, disk, order, ops, written, evicted, store_failed>>
    /\ UNCHANGED <<searchVars, scanVars, repeatVars, callVars>>

NextCache ==
    \/ CacheSet
    \/ CacheSetFails
    \/ CacheGet
    \/ CacheGetFails
    \/ CacheDelete
    \/ CacheDeleteFails
    \/ CacheClearAll
    \/ CacheClearAllFails
    \/ Tick

SpecCache == InitCache /\ [][NextCache]_vars

(***************************************************************************)
(* Searcher.__init__                                                       *)
(***************************************************************************)
\* mutant of ConstructOutcome: the re.error is swallowed and the instance is
\* kept
ConstructOutcomeSwallowed(q, regex) == "ready"

\* what the constructor does with the query: "raise" is the ValueError of
\* an invalid regular expression
ConstructOutcome(q, regex) ==
    IF regex /\ ~Compiles(q) THEN "raise" ELSE "ready"

Construct ==
    /\ pc = "new"
    /\ pc' = (IF ConstructOutcome(query, is_regex) = "raise"
              THEN "ctor_error" ELSE "ready")
    /\ UNCHANGED <<scanVars, repeatVars, callVars, cacheVars>>
    /\ UNCHANGED <<query, is_case_sensitive, is_regex, context_lines, file_paths,
                   fs, idx, content, matches, current_pos, k, all_results, cache,
                   origin>>

(***************************************************************************)
(* search_files                                                            *)
(***************************************************************************)
\* mutant of FreshResults: the results of the instance's earlier call are kept
KeptResults == all_results

\* line 66: all_results = []
FreshResults == <<>>

\* lines 66-74: the call starts with no results and no cached line starts
SearchFilesBegin ==
    /\ pc = "ready"
    /\ all_results' = FreshResults
    /\ origin' = <<>>
    /\ cache' = NoCache
    /\ idx' = 1
    /\ pc' = "next_file"
    /\ UNCHANGED <<scanVars, repeatVars, callVars, cacheVars>>
    /\ UNCHANGED <<query, is_case_sensitive, is_regex, context_lines, file_paths,
                   fs, content, matches, current_pos, k>>

\* what _read_file_content returns for a path
ReadFileContent(path) == fs[path]

\* mutant of ReadFileFail: break instead of continue
ReadFileFailBreaks ==
    /\ pc = "next_file"
    /\ idx <= Len(file_paths)
    /\ ~ReadFileContent(file_paths[idx]).readable
    /\ pc' = "done"
    /\ UNCHANGED <<scanVars, repeatVars, callVars, cacheVars>>
    /\ UNCHANGED <<query, is_case_sensitive, is_regex, context_lines, idx,
                   file_paths, fs, content, matches, current_pos, k, all_results,
                   cache, origin>>

\* lines 77-79: the file cannot be read; continue with the next file
ReadFileFail ==
    /\ pc = "next_file"
    /\ idx <= Len(file_paths)
    /\ ~ReadFileContent(file_paths[idx]).readable
    /\ idx' = idx + 1
    /\ UNCHANGED <<scanVars, repeatVars, callVars, cacheVars>>
    /\ UNCHANGED <<query, is_case_sensitive, is_regex, context_lines, pc,
                   file_paths, fs, content, matches, current_pos, k, all_results,
                   cache, origin>>

\* lines 77-82 and 168-205: the file is read and _search_in_content starts
ReadFileOk ==
    /\ pc = "next_file"
    /\ idx <= Len(file_paths)
    /\ ReadFileContent(file_paths[idx]).readable
    /\ content' = ReadFileContent(file_paths[idx]).text
    /\ matches' = <<>>
    /\ current_pos' = 0
    /\ pc' = "search"
    /\ UNCHANGED <<scanVars, repeatVars, callVars, cacheVars>>
    /\ UNCHANGED <<query, is_case_sensitive, is_regex, context_lines, file_paths,
                   fs, idx, k, all_results, cache, origin>>

\* lines 169-170: empty content has no matches
SearchEmptyContent ==
    /\ pc = "search"
    /\ content = <<>>
    /\ k' = 1
    /\ pc' = "emit"
    /\ UNCHANGED <<scanVars, repeatVars, callVars, cacheVars>>
    /\ UNCHANGED <<query, is_case_sensitive, is_regex, context_lines, file_paths,
                   fs, idx, content, matches, current_pos, all_results, cache,
                   origin>>

\* lines 186-197: the regular-expression branch
SearchRegex ==
    /\ pc = "search"
    /\ content # <<>>
    /\ is_regex
    /\ matches' = RegexMatches(query, content, is_case_sensitive)
    /\ k' = 1
    /\ pc' = "emit"
    /\ UNCHANGED <<scanVars, repeatVars, callVars, cacheVars>>
    /\ UNCHANGED <<query, is_case_sensitive, is_regex, context_lines, file_paths,
                   fs, idx, content, current_pos, all_results, cache, origin>>

\* the literal loop is cut off after this many matches of one file: a loop
\* that terminates never reports more matches than the haystack has
\* characters
MaxIters == 2 * MaxLen + 2

\* where the literal loop resumes after a match ending at char_end
NextPos(char_end) == char_end

\* lines 208-230: one iteration of the literal loop that finds a match
LiteralStep ==
    /\ pc = "search"
    /\ content # <<>>
    /\ ~is_regex
    /\ Len(matches) < MaxIters
    /\ LET search_query == SearchQuery(query, is_case_sensitive)
           haystack     == Haystack(content, is_case_sensitive)
           found_pos    == Find(haystack, search_query, current_pos)
           char_end     == found_pos + Len(search_query)
       IN  /\ current_pos < Len(haystack)
           /\ found_pos # -1
           /\ matches' = Append(matches, MatchInfo(content, found_pos, char_end))
           /\ current_pos' = NextPos(char_end)
    /\ UNCHANGED <<scanVars, repeatVars, callVars, cacheVars>>
    /\ UNCHANGED <<query, is_case_sensitive, is_regex, context_lines, pc,
                   file_paths, fs, idx, content, k, all_results, cache, origin>>

\* lines 208 and 213-215: the literal loop ends
LiteralExit ==
    /\ pc = "search"
    /\ content # <<>>
    /\ ~is_regex
    /\ LET search_query == SearchQuery(query, is_case_sensitive)
           haystack     == Haystack(content, is_case_sensitive)
       IN  \/ current_pos >= Len(haystack)
           \/ Find(haystack, search_query, current_pos) = -1
    /\ k' = 1
    /\ pc' = "emit"
    /\ UNCHANGED <<scanVars, repeatVars, callVars, cacheVars>>
    /\ UNCHANGED <<query, is_case_sensitive, is_regex, context_lines, file_paths,
                   fs, idx, content, matches, current_pos, all_results, cache,
                   origin>>

\* lines 40-43: the line starts _get_line_info_from_char_offset works with
\* when called for the file at position ref with content text
CacheFor(c, ref, text) ==
    IF ~c.present \/ c.ref # ref
    THEN [present |-> TRUE, line_starts |-> LineStarts(text), ref |-> ref]
    ELSE c

\* lines 88-102: << match_line_idx, match_start_char_in_line,
\* match_end_char_in_line >> of a match
MatchPlace(line_starts, text, match_info) ==
    LET content_lines == SplitLines(text)
        startInfo == LineInfo(line_starts, match_info.char_start)
        endInfo   == LineInfo(line_starts, match_info.char_end)
        adjust    == /\ match_info.char_end > match_info.char_start
                     /\ endInfo[2] = 0
                     /\ match_info.char_end > 0
                     /\ text[match_info.char_end] = "\n"
    IN  <<startInfo[1], startInfo[2],
          IF adjust THEN Len(content_lines[startInfo[1] + 1]) ELSE endInfo[2]>>

\* mutant of MakeRecord: the match's offsets are added to the dictionary
MakeRecordWithOffsets(file_path, match_info, snippet) ==
    [file_path   |-> file_path,
     line_number |-> match_info.line_number,
     match_text  |-> match_info.match_text,
     char_start_in_line |-> match_info.char_start,
     char_end_in_line   |-> match_info.char_end,
     snippet     |-> snippet]

\* lines 110-115: the dictionary appended to all_results
MakeRecord(file_path, match_info, snippet) ==
    [file_path   |-> file_path,
     line_number |-> match_info.line_number,
     match_text  |-> match_info.match_text,
     snippet     |-> snippet]

\* mutant of Collect: the record is put in front
CollectInFront(results, record) == <<record>> \o results

\* line 110: all_results.append(record)
Collect(results, record) == Append(results, record)

\* lines 84-115: one iteration of the loop over matches_in_file
ProcessMatch ==
    /\ pc = "emit"
    /\ k <= Len(matches)
    /\ LET match_info == matches[k]
           c     == CacheFor(cache, idx, content)
           place == MatchPlace(c.line_starts, content, match_info)
           snippet == GenerateSnippet(SplitLines(content), place[1], place[2],
                                      place[3], context_lines)
       IN  /\ cache' = c
           /\ all_results' = Collect(all_results,
                                     MakeRecord(file_paths[idx], match_info, snippet))
           /\ origin' = Collect(origin,
                               [file       |-> idx,
                                char_start |-> match_info.char_start,
                                char_end   |-> match_info.char_end,
                                line_idx   |-> place[1],
                                start_in_line |-> place[2],
                                end_in_line   |-> place[3]])
    /\ k' = k + 1
    /\ UNCHANGED <<scanVars, repeatVars, callVars, cacheVars>>
    /\ UNCHANGED <<query, is_case_sensitive, is_regex, context_lines, pc,
                   file_paths, fs, idx, content, matches, current_pos>>

\* mutant of FileDone: the cached line starts stay on the instance
FileDoneKeepsCache ==
    /\ pc = "emit"
    /\ k > Len(matches)
    /\ idx' = idx + 1
    /\ pc' = "next_file"
    /\ UNCHANGED <<scanVars, repeatVars, callVars, cacheVars>>
    /\ UNCHANGED <<query, is_case_sensitive, is_regex, context_lines, file_paths,
                   fs, content, matches, current_pos, k, all_results, origin, cache>>

\* lines 117-121: the cached line starts are dropped before the next file
FileDone ==
    /\ pc = "emit"
    /\ k > Len(matches)
    /\ cache' = NoCache
    /\ idx' = idx + 1
    /\ pc' = "next_file"
    /\ UNCHANGED <<scanVars, repeatVars, callVars, cacheVars>>
    /\ UNCHANGED <<query, is_case_sensitive, is_regex, context_lines, file_paths,
                   fs, content, matches, current_pos, k, all_results, origin>>

\* line 123
Return ==
    /\ pc = "next_file"
    /\ idx > Len(file_paths)
    /\ pc' = "done"
    /\ UNCHANGED <<scanVars, repeatVars, callVars, cacheVars>>
    /\ UNCHANGED <<query, is_case_sensitive, is_regex, context_lines, file_paths,
                   fs, idx, content, matches, current_pos, k, all_results, cache,
                   origin>>

(***************************************************************************)
(* Specifications of the searcher.                                         *)
(***************************************************************************)
\* the pattern and the content of test_search_in_content_regex_simple
ColourPattern == <<"C", "o", "l", "o", "u", "?", "r">>

ColourLine ==
    <<"C", "o", "l", "o", "r", ":", " ", "R", "e", "d", ",", " ",
      "C", "o", "l", "o", "u", "r", ":", " ", "B", "l", "u", "e", ",", " ",
      "c", "o", "l", "o", "r", ":", " ", "G", "r", "e", "e", "n">>

Queries == UNION {SeqsUpTo(A, MaxQueryLen) : A \in QueryAlphabets} \cup {ColourPattern}

\* a line of two characters followed by a second line
WrappedLine == <<"a", "a", "\n", "a">>

Contents ==
    UNION {SeqsUpTo(A, MaxLen) : A \in ContentAlphabets} \cup {ColourLine, WrappedLine}

\* the file contents of the batch specification
BatchContents ==
    {<<>>, <<"a">>, <<"a", "a">>, <<"\n", "a">>, <<"a", "\n", "a">>}

\* a Searcher about to be constructed and the files it will be given
InitSearcher ==
    /\ CacheIdle
    /\ query \in Queries
    /\ is_case_sensitive \in BOOLEAN
    /\ is_regex \in BOOLEAN
    /\ context_lines \in 0..MaxContext
    /\ pc = "new"
    /\ idx = 0
    /\ content = <<>>
    /\ matches = <<>>
    /\ current_pos = 0
    /\ k = 0
    /\ all_results = <<>>
    /\ origin = <<>>
    /\ cache = NoCache
    /\ earlier_calls = 0
    /\ prev_results = <<>>
    /\ ScanIdle
    /\ CallIdle

\* one file of at most MaxLen characters
InitSearch ==
    /\ InitSearcher
    /\ file_paths = <<Paths[1]>>
    /\ fs \in [{Paths[1]} ->
                 {Unreadable} \cup {Readable(t) : t \in Contents}]

\* up to MaxFiles files
InitBatch ==
    /\ InitSearcher
    /\ \E n \in 0..MaxFiles :
          /\ file_paths = SubSeq(Paths, 1, n)
          /\ fs \in [{Paths[i] : i \in 1..n} ->
                       {Unreadable} \cup {Readable(t) : t \in BatchContents}]

NextSearch ==
    \/ Construct
    \/ SearchFilesBegin
    \/ ReadFileFail
    \/ ReadFileOk
    \/ SearchEmptyContent
    \/ SearchRegex
    \/ LiteralStep
    \/ LiteralExit
    \/ ProcessMatch
    \/ FileDone
    \/ Return

SpecSearch == InitSearch /\ [][NextSearch]_vars

SpecBatch == InitBatch /\ [][NextSearch]_vars

(***************************************************************************)
(* search_files called a second time on the same instance with the same    *)
(* file list, the files unchanged.                                         *)
(***************************************************************************)
\* the file contents of the repeated search
RepeatContents == {<<>>, <<"a">>, <<"a", "\n", "a">>}

InitRepeat ==
    /\ InitSearcher
    /\ \E n \in 0..MaxFiles :
          /\ file_paths = SubSeq(Paths, 1, n)
          /\ fs \in [{Paths[i] : i \in 1..n} ->
                       {Unreadable} \cup {Readable(t) : t \in RepeatContents}]

\* the caller keeps what the first call returned and calls search_files
\* again; the instance is as the first call left it
CallAgain ==
    /\ pc = "done"
    /\ earlier_calls = 0
    /\ prev_results' = all_results
    /\ earlier_calls' = earlier_calls + 1
    /\ pc' = "ready"
    /\ UNCHANGED <<scanVars, callVars, cacheVars>>
    /\ UNCHANGED <<query, is_case_sensitive, is_regex, context_lines, file_paths,
                   fs, idx, content, matches, current_pos, k, all_results, cache,
                   origin>>

NextRepeat ==
    \/ NextSearch
    \/ CallAgain

SpecRepeat == InitRepeat /\ [][NextRepeat]_vars

(***************************************************************************)
(* What search_files returns for a list of readable files, as a function   *)
(* of the configuration and the contents alone.                            *)
(***************************************************************************)
RECURSIVE LiteralMatchesFrom(_, _, _, _)
\* lines 205-231: the literal loop from current_pos on
LiteralMatchesFrom(text, haystack, search_query, pos) ==
    IF pos >= Len(haystack) THEN <<>>
    ELSE LET found_pos == Find(haystack, search_query, pos)
             char_end  == found_pos + Len(search_query)
         IN  IF found_pos = -1 THEN <<>>
             ELSE <<MatchInfo(text, found_pos, char_end)>>
                    \o LiteralMatchesFrom(text, haystack, search_query, NextPos(char_end))

\* _search_in_content(content, file_path)
SearchInContent(text) ==
    IF text = <<>> THEN <<>>
    ELSE IF is_regex THEN RegexMatches(query, text, is_case_sensitive)
    ELSE LiteralMatchesFrom(text, Haystack(text, is_case_sensitive),
                            SearchQuery(query, is_case_sensitive), 0)

\* lines 81-115 for one file whose cached line starts are its own
FileRecords(path, text) ==
    LET ms == SearchInContent(text)
    IN  [n \in 1..Len(ms) |->
           LET place == MatchPlace(LineStarts(text), text, ms[n])
           IN  MakeRecord(path, ms[n],
                          GenerateSnippet(SplitLines(text), place[1], place[2],
                                          place[3], context_lines))]

\* search_files(paths) when every file of paths can be read
ResultsOf(paths) ==
    Flatten([i \in 1..Len(paths) |-> FileRecords(paths[i], fs[paths[i]].text)])

(***************************************************************************)
(* Reading a snippet back.                                                 *)
(***************************************************************************)
\* the position of token in text, 0 if it is not there
PosOf(text, token) ==
    IF \E i \in 1..Len(text) : text[i] = token
    THEN CHOOSE i \in 1..Len(text) :
            text[i] = token /\ \A j \in 1..(i - 1) : text[j] # token
    ELSE 0

HasMarkers(text) ==
    /\ PosOf(text, ">>>") >= 2
    /\ PosOf(text, "<<<") >= PosOf(text, ">>>") + 2
    /\ PosOf(text, "<<<") < Len(text)

\* the rendered match line with " >>> " and " <<< " taken out
WithoutMarkers(text) ==
    LET i == PosOf(text, ">>>")
        j == PosOf(text, "<<<")
    IN  SubSeq(text, 1, i - 2) \o SubSeq(text, i + 2, j - 2)
          \o SubSeq(text, j + 2, Len(text))

\* the text between " >>> " and " <<< "
Highlighted(text) ==
    SubSeq(text, PosOf(text, ">>>") + 2, PosOf(text, "<<<") - 2)

\* the content of the file the n-th record came from
TextOf(n) == fs[file_paths[origin[n].file]].text

(***************************************************************************)
(* Claims.                                                                 *)
(***************************************************************************)

\* the directories above the entry at path, outermost first
Ancestors(path) == {SubSeq(path, 1, n) : n \in 1..(Len(path) - 1)}

\* the set of the collected paths
Collected == {collected_files[i] : i \in 1..Len(collected_files)}

\* a file that passes the file-level exclusion and binary checks
PassesAlone(e) ==
    /\ ~e.is_dir
    /\ ~IsExcluded(e.path, FALSE)
    /\ ~IsBinary(Last(e.path), e.bytes, e.readable)

\* C1: no returned path lies beneath a directory that _is_excluded excludes,
\* even when the file itself passes the exclusion and binary checks.
C1_PrunedDirectories ==
    \A f \in Collected : \A d \in Ancestors(f) : ~IsExcluded(d, TRUE)

\* C1 witness: a finished scan of a tree in which a file that passes on its
\* own lies beneath an excluded directory
C1_Witness ==
    /\ scan_pc = "done"
    /\ \E e \in tree :
          /\ PassesAlone(e)
          /\ \E d \in Ancestors(e.path) : IsExcluded(d, TRUE)

\* C2: the scan returns exactly the files under the root that are not
\* excluded, not binary and not beneath an excluded directory, each once,
\* whatever the order of the directory listings.
C2_ExactlyTheEligibleFiles ==
    scan_pc = "done" =>
      /\ Collected = {e.path : e \in {x \in tree :
                         /\ PassesAlone(x)
                         /\ \A d \in Ancestors(x.path) : ~IsExcluded(d, TRUE)}}
      /\ Cardinality(Collected) = Len(collected_files)

\* C2 witness: a finished scan that returned two files and left one out
C2_Witness ==
    /\ scan_pc = "done"
    /\ Len(collected_files) >= 2
    /\ \E e \in tree : ~e.is_dir /\ e.path \notin Collected

\* C3: a search whose query is the empty string yields zero matches, in the
\* literal and in the regular-expression engine.
C3_EmptyQueryNoMatches ==
    query = <<>> => (matches = <<>> /\ all_results = <<>>)

\* C4: every returned record's snippet has a line displayed with the
\* record's line_number, and that line with its highlight markers removed is
\* the corresponding line of the file's content.
C4_SnippetKeepsLine ==
    \A n \in 1..Len(all_results) :
        LET r == all_results[n]
            lines == SplitLines(TextOf(n))
        IN  \E j \in 1..Len(r.snippet) :
               /\ r.snippet[j].num = r.line_number
               /\ r.line_number <= Len(lines)
               /\ HasMarkers(r.snippet[j].text)
               /\ WithoutMarkers(r.snippet[j].text) = lines[r.line_number]

\* C5: for every returned record whose match has no line break, the text
\* between the highlight markers of the snippet's match line is match_text.
C5_HighlightIsMatchText ==
    \A n \in 1..Len(all_results) :
        LET r == all_results[n]
        IN  (\A i \in 1..Len(r.match_text) : ~IsLineBoundary(r.match_text[i]))
            => \E j \in 1..Len(r.snippet) :
                  /\ r.snippet[j].num = r.line_number
                  /\ HasMarkers(r.snippet[j].text)
                  /\ Highlighted(r.snippet[j].text) = r.match_text

\* C6: in case-insensitive literal search every reported match_text is
\* content[char_start:char_end] and equals the query once both are lowered.
C6_CasingPreserved ==
    (~is_regex /\ ~is_case_sensitive /\ pc \in {"search", "emit"})
    => \A n \in 1..Len(matches) :
          /\ matches[n].match_text
               = Slice(content, matches[n].char_start, matches[n].char_end)
          /\ Lower(matches[n].match_text) = Lower(query)

\* the position of a path in the file list
PathPos(path) == CHOOSE i \in 1..Len(file_paths) : file_paths[i] = path

\* C7 as stated: records are ordered by file position and, within one file,
\* by strictly increasing global start offset.
C7_StrictlyIncreasingStarts ==
    \A m, n \in 1..Len(all_results) :
        m < n =>
          \/ PathPos(all_results[m].file_path) < PathPos(all_results[n].file_path)
          \/ /\ all_results[m].file_path = all_results[n].file_path
             /\ origin[m].char_start < origin[n].char_start

\* C7 as amended: records are ordered by file position and, within one file,
\* every match starts at or after the end of the one before; two records of
\* a file share a start offset only when the earlier match is empty and the
\* later one is not; in literal mode the start offsets strictly increase.
C7_FileThenLeftToRight ==
    /\ Len(origin) = Len(all_results)
    /\ \A n \in 1..Len(all_results) :
          all_results[n].file_path = file_paths[origin[n].file]
    /\ \A m, n \in 1..Len(all_results) :
          m < n =>
            \/ PathPos(all_results[m].file_path) < PathPos(all_results[n].file_path)
            \/ /\ all_results[m].file_path = all_results[n].file_path
               /\ origin[m].char_end <= origin[n].char_start
               /\ (origin[m].char_start = origin[n].char_start
                     => /\ is_regex
                        /\ origin[m].char_end = origin[m].char_start
                        /\ origin[n].char_end > origin[n].char_start)

\* C7 witness: a finished search with records of two files and two records
\* of one file that start at the same offset
C7_Witness ==
    /\ pc = "done"
    /\ \E m, n \in 1..Len(all_results) :
          all_results[m].file_path # all_results[n].file_path
    /\ \E m, n \in 1..Len(all_results) :
          /\ m < n
          /\ origin[m].file = origin[n].file
          /\ origin[m].char_start = origin[n].char_start

\* the files of the list that can be read, in order
ReadablePaths == SelectSeq(file_paths, LAMBDA p : fs[p].readable)

\* the literal loop ends on every readable file: the query is not empty or
\* the files are
LoopsEnd ==
    \/ is_regex
    \/ query # <<>>
    \/ \A i \in 1..Len(ReadablePaths) : fs[ReadablePaths[i]].text = <<>>

\* C8: a file that cannot be read contributes no record and does not abort
\* the batch: the result is the result for the list without the failing
\* files.
C8_FailureIsolation ==
    pc = "done" => (LoopsEnd /\ all_results = ResultsOf(ReadablePaths))

\* C8 witness: a finished search whose first file could not be read and
\* whose second file has matches
C8_Witness ==
    /\ pc = "done"
    /\ Len(file_paths) >= 2
    /\ ~fs[file_paths[1]].readable
    /\ \E n \in 1..Len(all_results) : all_results[n].file_path = file_paths[2]

\* C9: a regular expression that does not compile fails the construction,
\* and only that does; no search ever runs with such a query.
C9_InvalidRegexFailsConstruction ==
    /\ (is_regex /\ ~Compiles(query)) => pc \in {"new", "ctor_error"}
    /\ pc = "ctor_error" => (is_regex /\ ~Compiles(query))
    /\ pc = "ctor_error" => all_results = <<>>

\* C9 witness: a construction that raised
C9_Witness == pc = "ctor_error"

WalkedDirs ==
    {<<>>} \cup {e.path : e \in {x \in tree :
                    /\ x.is_dir
                    /\ \A n \in 1..Len(x.path) : ~IsExcluded(SubSeq(x.path, 1, n), TRUE)}}

\* C11: a root that does not exist or is not a directory makes scan_directory
\* return an empty list without walking, and nothing else ends a scan early:
\* a scan of a directory returns only after the walk has yielded every
\* directory that is not pruned.
C11_InvalidRootOnlyEarlyEnd ==
    scan_pc = "done" =>
      IF root.kind = "dir"
      THEN visited = WalkedDirs
      ELSE collected_files = <<>> /\ visited = {}

\* C11 witness: a call on a root that is not a directory has returned
C11_Witness == scan_pc = "done" /\ root.kind # "dir" /\ collected_files = <<>>


\* a direct _is_excluded call has returned
ExcludedReturned == call.op = "is_excluded" /\ call_pc = "returned"

\* the base name of the entry the call asks about starts with "."
Dotted == BaseName(call.path) # <<>> /\ Head(BaseName(call.path)) = "."

\* the entry the call asks about is the scan root itself
IsScanRoot == call.path = <<>>

\* C12: with exclude_dot_items on, every entry whose base name starts with
\* "." is excluded, except that the scan root is never excluded because of
\* its own name (no pattern is configured, so only the name can decide);
\* with exclude_dot_items off, a leading "." alone never excludes an entry.
C12_DotItemRule ==
    (ExcludedReturned /\ Dotted) =>
      /\ (cfg.exclude_dot_items /\ ~IsScanRoot) => result = TRUE
      /\ (cfg.exclude_dot_items /\ IsScanRoot /\ cfg.custom_exclude_patterns = <<>>)
            => result = FALSE
      /\ (/\ ~cfg.exclude_dot_items
          /\ ~IsScanRoot
          /\ cfg.custom_exclude_patterns = <<>>
          /\ call.is_dir => BaseName(call.path) \notin cfg.excluded_dirs
          /\ ~call.is_dir =>
                \A pattern \in cfg.excluded_files : ~FnMatch(BaseName(call.path), pattern))
            => result = FALSE

\* the dot check lets the entry of the call through
PassedDotCheck == ~(cfg.exclude_dot_items /\ Dotted /\ ~IsScanRoot)

\* the kinds of a free-form pattern against a directory, as C14 states them
EndsInSeparator(pattern) == pattern # <<>> /\ pattern[Len(pattern)] = "/"

EndsInSlashStar(pattern) ==
    /\ Len(pattern) >= 2
    /\ pattern[Len(pattern) - 1] = "/" /\ pattern[Len(pattern)] = "*"
    /\ ~(Len(pattern) >= 3 /\ pattern[Len(pattern) - 2] = "/")

\* C14 as stated: the third kind of pattern is any other pattern
StatedDirMatch(pattern, basename, relative_path) ==
    IF EndsInSeparator(pattern)
    THEN \/ FnMatch(relative_path \o <<"/">>, pattern)
         \/ FnMatch(basename, RStripSep(pattern))
    ELSE IF EndsInSlashStar(pattern)
    THEN \/ basename = SubSeq(pattern, 1, Len(pattern) - 2)
         \/ relative_path = SubSeq(pattern, 1, Len(pattern) - 2)
    ELSE FnMatch(basename, pattern) \/ FnMatch(relative_path, pattern)

\* C14 (as stated): a directory that passes the dot check is excluded exactly
\* when its base name is in the excluded-directory set or some free-form
\* pattern matches under its kind, any pattern of the third kind being tried
\* as a glob on the base name and the relative path.
C14_DirectoryPredicate ==
    (ExcludedReturned /\ call.is_dir /\ PassedDotCheck) =>
      (result = TRUE <=>
         \/ BaseName(call.path) \in cfg.excluded_dirs
         \/ \E n \in 1..Len(cfg.custom_exclude_patterns) :
               StatedDirMatch(cfg.custom_exclude_patterns[n], BaseName(call.path),
                              RelativePath(call.path)))

\* a pattern of the third kind that the directory branch tries at all
PlainPattern(pattern) ==
    \A j \in 1..Len(pattern) : pattern[j] # "." /\ pattern[j] # "*"

\* C14 (amended): as stated, except that a pattern of the third kind is tried
\* only if it holds neither "." nor "*".
C14_DirectoryPredicateAmended ==
    (ExcludedReturned /\ call.is_dir /\ PassedDotCheck) =>
      (result = TRUE <=>
         \/ BaseName(call.path) \in cfg.excluded_dirs
         \/ \E n \in 1..Len(cfg.custom_exclude_patterns) :
               LET pattern == cfg.custom_exclude_patterns[n]
               IN  /\ StatedDirMatch(pattern, BaseName(call.path),
                                     RelativePath(call.path))
                   /\ \/ EndsInSeparator(pattern)
                      \/ EndsInSlashStar(pattern)
                      \/ PlainPattern(pattern))

\* C14 witness: a directory below the root, not in the excluded-directory
\* set, is excluded by a pattern ending in "/*" given with its parent
C14_Witness ==
    /\ ExcludedReturned /\ call.is_dir /\ PassedDotCheck
    /\ result = TRUE
    /\ call.path = <<Src, Build>>
    /\ cfg.custom_exclude_patterns = <<Src \o <<"/">> \o Build \o <<"/", "*">> >>

\* C15: a file that passes the dot check is excluded exactly when its base
\* name matches an excluded-file glob or a free-form pattern that does not
\* end in a separator matches its base name or its relative path; neither a
\* directory-only pattern nor the excluded-directory set excludes a file.
C15_FilePredicate ==
    (ExcludedReturned /\ ~call.is_dir /\ PassedDotCheck) =>
      (result = TRUE <=>
         \/ \E pattern \in cfg.excluded_files : FnMatch(BaseName(call.path), pattern)
         \/ \E n \in 1..Len(cfg.custom_exclude_patterns) :
               LET pattern == cfg.custom_exclude_patterns[n]
               IN  /\ ~EndsInSeparator(pattern)
                   /\ \/ FnMatch(BaseName(call.path), pattern)
                      \/ FnMatch(RelativePath(call.path), pattern))

\* C15 witness: a file is excluded by a pattern that matches its relative
\* path and not its base name
C15_Witness ==
    /\ ExcludedReturned /\ ~call.is_dir /\ PassedDotCheck
    /\ result = TRUE
    /\ call.path = <<Src, <<"a", ".", "t", "x", "t">> >>
    /\ cfg.custom_exclude_patterns = <<Src \o <<"/", "*", ".", "t", "x", "t">> >>


\* C13: a scanner built with excluded_dirs = ['.my_venv'] and every other
\* option at its default does not exclude the directory '.git' directly
\* under the root, and its scan returns the files inside '.git' and 'venv'.
C13_CustomDirsReplaceDefaults ==
    (/\ scan_pc = "done"
     /\ root.kind = "dir"
     /\ cfg.excluded_dirs = {MyVenv}
     /\ cfg.excluded_files = DEFAULT_EXCLUDED_FILES
     /\ cfg.binary_extensions = DEFAULT_BINARY_EXTENSIONS
     /\ cfg.custom_exclude_patterns = <<>>
     /\ cfg.exclude_dot_items)
      => \A d \in {Git, Venv} :
            (\E x \in tree : x.path = <<d>> /\ x.is_dir) =>
              /\ ~IsExcluded(<<d>>, TRUE)
              /\ \A e \in tree :
                    (Len(e.path) = 2 /\ e.path[1] = d /\ PassesAlone(e))
                      => e.path \in Collected


\* a direct _is_binary call has returned
BinaryReturned == call.op = "is_binary" /\ call_pc = "returned"

\* the first 1024 bytes of the file of the call
Sample == [i \in 1..Min(Len(call.bytes), 1024) |-> call.bytes[i]]

\* the lowercased extension of the file of the call is a binary one
ExtensionListed == LowerName(SplitExt(call.name)) \in cfg.binary_extensions

\* C16: a file whose lowercased extension is in the binary-extension set is
\* binary and its content is not read; otherwise an empty sample is not
\* binary, and a non-empty sample with a zero byte is binary whatever the
\* proportion of its other bytes.
C16_DecisionOrder ==
    BinaryReturned =>
      /\ ExtensionListed => (result = TRUE /\ ~opened)
      /\ (~ExtensionListed /\ call.readable /\ Sample = <<>>) => result = FALSE
      /\ (~ExtensionListed /\ call.readable /\ \E i \in 1..Len(Sample) : Sample[i] = 0)
            => result = TRUE

\* C16 witness: a file without a binary extension whose sample ends in its
\* only zero byte, all other bytes being text, has been judged binary
C16_Witness ==
    /\ BinaryReturned /\ ~ExtensionListed /\ opened
    /\ Len(Sample) = 1024 /\ Sample[1024] = 0
    /\ \A i \in 1..1023 : Sample[i] = 97
    /\ result = TRUE

\* the text set as C17 states it: printable ASCII, newline, carriage return,
\* tab, form feed and backspace
StatedTextByte(b) == (32 <= b /\ b <= 126) \/ b \in {10, 13, 9, 12, 8}

\* C17: a non-empty sample without a zero byte, of a file without a binary
\* extension, is binary exactly when the bytes outside the stated text set
\* are strictly more than the threshold share of the sample; a form feed
\* never counts as non-text.
C17_RatioHeuristic ==
    (/\ BinaryReturned /\ ~ExtensionListed /\ call.readable
     /\ Sample # <<>> /\ \A i \in 1..Len(Sample) : Sample[i] # 0)
      => (result = TRUE <=>
            100 * Cardinality({i \in 1..Len(Sample) : ~StatedTextByte(Sample[i])})
              > ThresholdPercent * Len(Sample))


\* no directory above the entry at path is excluded
NotPruned(path) == \A d \in Ancestors(path) : ~IsExcluded(d, TRUE)

\* the verdict of the binary check on a file had its read succeeded
BinaryIfRead(e) == IsBinary(Last(e.path), e.bytes, TRUE)

\* the binary check of the file tries to read it and fails
ReadFails(e) ==
    /\ ~e.is_dir /\ ~e.readable
    /\ LowerName(SplitExt(Last(e.path))) \notin cfg.binary_extensions

\* C18: a file whose read fails in the binary check is taken as not binary
\* (it is returned unless it is excluded or pruned), the scan runs to its
\* end, and every other file is returned or left out as if no read had
\* failed.
C18_ReadErrorsDoNotAbort ==
    (scan_pc = "done" /\ root.kind = "dir") =>
      \A e \in tree :
         ~e.is_dir =>
           (e.path \in Collected <=>
              /\ NotPruned(e.path)
              /\ ~IsExcluded(e.path, FALSE)
              /\ ReadFails(e) \/ ~BinaryIfRead(e))

\* C18 witness: a finished scan returned a file whose read failed and a
\* file listed after it
C18_Witness ==
    /\ scan_pc = "done"
    /\ \E i, j \in 1..Len(collected_files) :
          /\ i < j
          /\ \E e \in tree : e.path = collected_files[i] /\ ReadFails(e)


\* C19: a second search_files call on the same instance, with the same file
\* list and unchanged files, returns the list the first call returned.
C19_Idempotent ==
    (pc = "done" /\ earlier_calls = 1) => all_results = prev_results

\* C19 witness: the second call has returned matches of two files, the
\* later one with a match after a line start
C19_Witness ==
    /\ pc = "done" /\ earlier_calls = 1
    /\ \E i, j \in 1..Len(all_results) :
          /\ all_results[i].file_path # all_results[j].file_path
          /\ all_results[j].line_number = 2


\* the matches of the regular-expression branch for the current file are in
\* matches
RegexSearched == is_regex /\ pc = "emit"

\* a match of the pattern may start at offset p of the current file
MatchPossibleAt(p) == MatchEnds(query, content, p, ~is_case_sensitive) # <<>>

\* the texts of the matches found in the current file, in order
MatchTexts == [n \in 1..Len(matches) |-> matches[n].match_text]

\* matches holds all non-overlapping matches of the pattern over the whole
\* content, left to right, each with the matched substring in its original
\* casing, case sensitivity being that of the flag given at construction;
\* on 'Color: Red, Colour: Blue, color: Green' the pattern Colou?r gives
\* 'Color', 'Colour' (line 1) when case-sensitive and 'Color', 'Colour',
\* 'color' when not
AllMatchesLeftToRight ==
      /\ \A n \in 1..Len(matches) :
            LET m == matches[n]
            IN  /\ 0 <= m.char_start /\ m.char_start <= m.char_end
                /\ m.char_end <= Len(content)
                /\ m.match_text = SubSeq(content, m.char_start + 1, m.char_end)
                /\ \E j \in 1..Len(MatchEnds(query, content, m.char_start,
                                             ~is_case_sensitive)) :
                      MatchEnds(query, content, m.char_start,
                                ~is_case_sensitive)[j] = m.char_end
      /\ \A n \in 1..(Len(matches) - 1) :
            /\ matches[n].char_end <= matches[n + 1].char_start
            /\ matches[n].char_start <= matches[n + 1].char_start
            /\ <<matches[n].char_start, matches[n].char_end>>
                 # <<matches[n + 1].char_start, matches[n + 1].char_end>>
      /\ \A p \in 0..Len(content) :
            MatchPossibleAt(p) =>
              \E n \in 1..Len(matches) :
                 \/ matches[n].char_start = p
                 \/ matches[n].char_start < p /\ p < matches[n].char_end
      /\ (query = ColourPattern /\ content = ColourLine) =>
            /\ MatchTexts =
                 IF is_case_sensitive
                 THEN <<SubSeq(ColourLine, 1, 5), SubSeq(ColourLine, 13, 18)>>
                 ELSE <<SubSeq(ColourLine, 1, 5), SubSeq(ColourLine, 13, 18),
                        SubSeq(ColourLine, 27, 31)>>
            /\ \A n \in 1..Len(matches) : matches[n].line_number = 1

\* C20 (as stated): regular-expression mode reports all non-overlapping
\* matches of the compiled pattern over the full content, left to right,
\* with the matched substrings in original casing and the case sensitivity
\* of the compile-time flag, as in the Colou?r example of the tests.
C20_RegexAllMatches == RegexSearched => AllMatchesLeftToRight

\* C20 (amended): as stated for a file that is not empty; an empty file has
\* no match, also for a pattern that matches the empty string.
C20_RegexAllMatchesOfNonEmpty ==
    RegexSearched =>
      IF content = <<>> THEN matches = <<>> ELSE AllMatchesLeftToRight

\* C20 witness: the case-insensitive search for Colou?r in the line of the
\* test has returned its three records
C20_Witness ==
    /\ pc = "done" /\ is_regex /\ ~is_case_sensitive
    /\ query = ColourPattern
    /\ Len(all_results) = 3
    /\ all_results[3].match_text = <<"c", "o", "l", "o", "r">>


\* C21: for a match on the 0-based line index m of a file with n lines and
\* context_lines = c, the snippet renders exactly the lines with indices
\* max(0, m - c) .. min(n - 1, m + c), each once, in ascending order, each
\* with its 1-based line number; no line outside the file is rendered.
C21_ContextWindow ==
    \A r \in 1..Len(all_results) :
        LET lines == SplitLines(TextOf(r))
            m  == origin[r].line_idx
            n  == Len(lines)
            s  == all_results[r].snippet
            lo == Max(0, m - context_lines)
            hi == Min(n - 1, m + context_lines)
        IN  m < n =>
              /\ Len(s) = hi - lo + 1
              /\ \A j \in 1..Len(s) :
                    /\ s[j].num = lo + j
                    /\ s[j].num <= n
                    /\ (s[j].num - 1 # m => s[j].text = <<" ">> \o lines[s[j].num])

\* C21 witness: a finished search of a three-line file with context_lines = 1
\* and a record on each line: the window is cut at the first line, whole on
\* the middle line and cut at the last line
C21_Witness ==
    /\ pc = "done"
    /\ context_lines = 1
    /\ \A m \in 0..2 :
          \E r \in 1..Len(all_results) :
              /\ Len(SplitLines(TextOf(r))) = 3
              /\ origin[r].line_idx = m
              /\ Len(all_results[r].snippet) = (IF m = 1 THEN 3 ELSE 2)


\* the position of a path in collected_files
FilePos(f) == CHOOSE i \in 1..Len(collected_files) : collected_files[i] = f

\* the directory a path is directly in
DirOf(path) == SubSeq(path, 1, Len(path) - 1)

\* path lies in a subdirectory, at any depth, of the directory d
Below(path, d) == Len(DirOf(path)) > Len(d) /\ SubSeq(path, 1, Len(d)) = d

\* f comes before g in the listing of their directory
ListedBefore(f, g) ==
    \E l \in listed :
        /\ l[1] = DirOf(f)
        /\ \E i, j \in 1..Len(l[2]) : i < j /\ l[2][i] = f /\ l[2][j] = g

\* C22: in the list scan_directory builds, every included file directly in a
\* directory D precedes every included file in a subdirectory of D at any
\* depth, and the files of one directory appear in directory-listing order.
C22_ParentBeforeChildren ==
    \A f, g \in Collected :
        /\ Below(g, DirOf(f)) => FilePos(f) < FilePos(g)
        /\ (DirOf(f) = DirOf(g) /\ ListedBefore(f, g)) => FilePos(f) < FilePos(g)

\* C22 witness: a finished scan that returned a file of the root and a file
\* of a subdirectory
C22_Witness ==
    /\ scan_pc = "done"
    /\ \E f, g \in Collected : Len(f) = 1 /\ Len(g) = 2

\* a finished scan that returned two files of one directory, the one whose
\* name sorts later listed first
C22_WitnessSiblings ==
    /\ scan_pc = "done"
    /\ \E f, g \in Collected :
          /\ f # g /\ DirOf(f) = DirOf(g)
          /\ Last(f)[1] = "r" /\ Last(g)[1] = "n"
          /\ ListedBefore(f, g)


\* C23: the directories search_codebase hands to the scanner are the
\* resolved paths, the scanner is never invoked on the filesystem root, and
\* when a requested path resolves to the root the call returns an error
\* result without any scan.
C23_RootScanGuard ==
    call.op = "search_codebase" =>
      /\ \A i \in 1..Len(scanned) :
            /\ scanned[i].dir = resolved_paths[i].parts
            /\ scanned[i].dir # <<>>
      /\ (call_pc = "returned"
            /\ \E i \in 1..Len(resolved_paths) : IsRootString(resolved_paths[i]))
           => (result = "error" /\ scanned = <<>>)


\* what a get of a key returns at time t when w is what the last set call
\* for the key passed and no delete or clear_all call followed
Promised(w, t) == IF w.present /\ w.expire_time > t THEN w.value ELSE "None"

C24_WitnessGet ==
    /\ call.op = "get"
    /\ result = "v2"
    /\ ~store_failed
    /\ ops = 3


\* C25: whenever _get_line_info_from_char_offset has been called for a file
\* during search_files, the table it worked with is the table of that
\* file's content, so every record is placed by its own file's line starts;
\* once a file has been processed, and when search_files has returned, no
\* cached table remains on the instance.
C25_LineStartsNeverStale ==
    /\ (pc = "emit" /\ cache.present)
          => (cache.ref = idx /\ cache.line_starts = LineStarts(content))
    /\ pc \in {"next_file", "search", "done", "ready"} => ~cache.present
    /\ \A n \in 1..Len(all_results) :
          origin[n].line_idx = LineIdx(LineStarts(TextOf(n)), origin[n].char_start)

\* C25 witness: the second file is being processed with its table cached,
\* the first file gave a record and has another table
C25_Witness ==
    /\ pc = "emit"
    /\ idx = 2
    /\ cache.present
    /\ \E n \in 1..Len(all_results) : origin[n].file = 1
    /\ \E n \in 1..Len(all_results) : origin[n].file = 2
    /\ LineStarts(fs[file_paths[1]].text) # cache.line_starts


\* the number of newline characters of text before the offset
NewlinesBefore(text, offset) ==
    Cardinality({i \in 1..Min(offset, Len(text)) : text[i] = "\n"})

\* the offset of the first character of the line the offset is on: just
\* after the last newline before the offset, 0 if there is none
LineFirstOffset(text, offset) ==
    LET after == {i \in 1..Min(offset, Len(text)) : text[i] = "\n"}
    IN  IF after = {} THEN 0 ELSE CHOOSE i \in after : \A j \in after : j <= i

\* C26: every match _search_in_content reports has as line_number 1 plus the
\* number of newline characters before its start offset, and its offset
\* within the line is its start offset minus the offset of that line's first
\* character.
C26_LineNumberOfMatch ==
    /\ \A n \in 1..Len(matches) :
          matches[n].line_number = 1 + NewlinesBefore(content, matches[n].char_start)
    /\ \A r \in 1..Len(all_results) :
          /\ all_results[r].line_number
                = 1 + NewlinesBefore(TextOf(r), origin[r].char_start)
          /\ origin[r].line_idx + 1 = all_results[r].line_number
          /\ origin[r].start_in_line
                = origin[r].char_start - LineFirstOffset(TextOf(r), origin[r].char_start)

\* C26 witness: a record of a match that starts on the second line, after
\* the line's first character
C26_Witness ==
    \E r \in 1..Len(all_results) :
        /\ all_results[r].line_number = 2
        /\ origin[r].start_in_line = 1
        /\ origin[r].char_start = 2


\* the query occurs in text at the offset, letter case counting or not as
\* the searcher was constructed
Occurs(text, offset) ==
    /\ offset + Len(query) <= Len(text)
    /\ LET found == Slice(text, offset, offset + Len(query))
       IN  IF is_case_sensitive THEN found = query ELSE Lower(found) = Lower(query)

\* the literal search of the current file is complete
LiteralSearched == pc = "emit" /\ ~is_regex /\ query # <<>>

\* where the search for the n-th match started
ScanStart(n) == IF n = 1 THEN 0 ELSE matches[n - 1].char_end

\* C27: for a non-empty query the literal matches are the greedy leftmost
\* non-overlapping occurrences of the query in the content: each match is
\* the leftmost occurrence at or after the end of the one before, has the
\* length of the query, starts strictly increase, and no occurrence lies
\* between two consecutive matches or after the last one.
C27_LiteralMatchSet ==
    LiteralSearched =>
      /\ \A n \in 1..Len(matches) :
            /\ Occurs(content, matches[n].char_start)
            /\ matches[n].char_end - matches[n].char_start = Len(query)
            /\ matches[n].char_start >= ScanStart(n)
            /\ n > 1 => matches[n].char_start > matches[n - 1].char_start
            /\ \A q \in ScanStart(n)..(matches[n].char_start - 1) : ~Occurs(content, q)
      /\ \A q \in ScanStart(Len(matches) + 1)..Len(content) : ~Occurs(content, q)

\* C27 on contents in which lowering a character keeps it one character
C27_LiteralMatchSetOfPlainText ==
    (\A i \in 1..Len(content) : content[i] # "Idot") => C27_LiteralMatchSet


\* C28: for every query, the empty one included, every combination of the
\* flags and every finite list of finite files, search_files terminates: in
\* the literal loop each iteration moves the scan position strictly forward,
\* so that the loop ends after at most as many iterations as the haystack has
\* characters.
C28_ScanPositionIncreases ==
    [][LiteralStep => current_pos' > current_pos]_vars


\* C29: for every match search_files records, also one that spans several
\* lines or ends exactly on a newline, the pieces the match line is cut
\* into have start offset <= end offset and before + matched + after is the
\* content of the match line: no character is dropped or rendered twice.
C29_SegmentsPartitionLine ==
    \A r \in 1..Len(all_results) :
        LET content_lines == SplitLines(TextOf(r))
            o == origin[r]
        IN  o.line_idx < Len(content_lines) =>
              LET line == content_lines[o.line_idx + 1]
                  seg  == Segments(line, o.start_in_line, o.end_in_line)
              IN  /\ seg.start <= seg.end
                  /\ seg.before_match \o seg.match_text \o seg.after_match = line


\* C30: for every match of every content, zero-length regex matches and
\* matches at the very end of a content that ends with a newline included,
\* the 0-based line index of the match's start offset is less than the
\* number of lines the content splits into, so that no record search_files
\* returns has the error placeholder as its snippet.
C30_LineIndexInRange ==
    \A r \in 1..Len(all_results) :
        /\ origin[r].line_idx < Len(SplitLines(TextOf(r)))
        /\ all_results[r].snippet # ErrorSnippet

=============================================================================
